---- MODULE Spec2Model ----
(***************************************************************************)
(* A model of the chaotic-crypto engine: the Feistel block cipher with CBC *)
(* chaining and PKCS#7-style padding (crypto/feistel.py), the modular      *)
(* Chebyshev evaluator (chaos/chebyshev.py), the Chebyshev Diffie-Hellman  *)
(* exchange (crypto/dh.py) and the S-box generator (crypto/sbox.py).       *)
(*                                                                         *)
(* Byte strings are sequences over 0..255.  The result of an operation    *)
(* that may raise is a record [err, val]: err names the Python exception   *)
(* ("none" on a normal return) and val is the returned byte string.  The   *)
(* optional key argument is a record [given, bytes].                       *)
(***************************************************************************)
EXTENDS Integers, Sequences, FiniteSets, TLC

VARIABLES
    \* ---- HyperchaosBlockCipher: the object's fields
    rounds, block_size, sbox,
    \* ---- the last cipher call: operation, arguments, drawn IV, result,
    \*      the joined blocks before unpadding, and how many times the call
    \*      ran _generate_keys and _process_block
    op, arg, key, iv, out, joined, keygen_calls, block_calls,
    \* ---- the most recent encrypt call (plaintext, key, ciphertext)
    enc_in, enc_key, enc_out,
    \* ---- ChebyshevPoly: the evaluator's modulus (self.mod) and its last
    \*      call, a record [op, arguments, results]
    cheb_mod, cheb_call,
    \* ---- the ChebyshevPoly instances alive (instance k has modulus
    \*      evaluators[k]), the cache that lru_cache keeps for
    \*      _recursive_eval (least recently used first), and the last call
    \*      of eval on one of the instances
    evaluators, lru_cache, memo_call,
    \* ---- ChebyshevDH: the instance [private_bits, public_bits, mod, param]
    \*      and the dictionary simulate_exchange returned
    dh, exchange,
    \* ---- HyperchaosBoxGenerator: the run of generate() or
    \*      generate_with_avalanche(), a record [pc, mode, box_size,
    \*      num_points, i, sbox]
    gen,
    \* ---- the last call of an internal method of the cipher
    \*      (_process_block, _hyperchaotic_round, generate_test_sequence), a
    \*      record [op, arguments, result]
    call,
    \* ---- the library routine that produced the IV of the last encrypt and
    \*      the one that produced the private exponents of the last exchange
    iv_source, private_source,
    \* ---- the last generate_bytes call on the chaotic system, a record
    \*      [op, via, num_bytes, skip, total_points, samples, bytes]
    stream,
    \* ---- the last object built by a CryptoInterface factory or by a
    \*      constructor, a record [kind, requested and stored parameters]
    built

cipherVars == <<rounds, block_size, sbox, op, arg, key, iv, out, joined,
                keygen_calls, block_calls, enc_in, enc_key, enc_out,
                call, iv_source>>

chebVars == <<cheb_mod, cheb_call, evaluators, lru_cache, memo_call>>

dhVars == <<dh, exchange, private_source>>

genVars == <<gen>>

chaosVars == <<stream>>

policyVars == <<built>>

vars == <<cipherVars, chebVars, dhVars, genVars, chaosVars, policyVars>>

----------------------------------------------------------------------------
\* Bounds of the model

\* longest plaintext handed to encrypt
MaxPlainLen == 9

\* largest modulus of a ChebyshevPoly evaluator
MaxModulus == 7

\* the least bit length of the prime modulus of a key exchange: the model's
\* stand-in for the 256 of ChebyshevDH.__init__, small enough for the primes
\* to be enumerated
MinPrimeBits == 10

\* largest box_size of an S-box generator
MaxBoxSize == 4

\* largest number read from the chaotic source by a shuffle step
MaxScaled == 6

\* largest number of bytes requested of generate_bytes
MaxBytes == 6

\* largest size requested of generate_test_sequence
MaxTestSize == 20

\* largest of the small degrees handed to eval (the degrees around the
\* dispatch threshold are added to them)
MaxDegree == 12

\* largest number of ChebyshevPoly instances alive together
MaxEvaluators == 2

\* longest sequence of eval calls interleaved over the instances
MaxCalls == 3

----------------------------------------------------------------------------
\* Python values

Ok(v) == [err |-> "none", val |-> v]
Raise(e) == [err |-> e, val |-> <<>>]
IsOk(r) == r.err = "none"

NoKey == [given |-> FALSE, bytes |-> <<>>]
KeyOf(b) == [given |-> TRUE, bytes |-> b]

\* iv = os.urandom(self.block_size): the operating system's generator
urandom_source == "os.urandom"

\* SecureRandom.randint: random.seed(...) then random.randint(a, b), the
\* module-level Mersenne Twister of the standard library
randint_source == "random.randint"

Min(a, b) == IF a < b THEN a ELSE b
Max(a, b) == IF a > b THEN a ELSE b

\* a sequence with every entry computed (once)
Force(s) == SubSeq(s, 1, Len(s))

\* a ^ b on non-negative integers, bit by bit
RECURSIVE XorBits(_, _)
XorBits(a, b) ==
    IF a = 0 THEN b
    ELSE IF b = 0 THEN a
    ELSE (((a % 2) + (b % 2)) % 2) + 2 * XorBits(a \div 2, b \div 2)

\* a ^ b on bytes, tabulated once
XorTable == Force([a \in 1..256 |-> Force([b \in 1..256 |-> XorBits(a - 1, b - 1)])])

Xor(a, b) == XorTable[a + 1][b + 1]

\* bytes([v] * n): every value must be in range(0, 256)
bytes_repeat(v, n) ==
    IF n > 0 /\ (v < 0 \/ v > 255) THEN Raise("ValueError")
    ELSE Ok([i \in 1..n |-> v])

\* data[:-k] for k >= 0 (data[:-0] is data[:0])
slice_drop_last(data, k) ==
    IF k = 0 THEN <<>>
    ELSE SubSeq(data, 1, Max(0, Len(data) - k))

\* data[a:b] with 0-based a <= b, clipped to the data
slice(data, a, b) == SubSeq(data, a + 1, Min(b, Len(data)))

\* [data[i:i+n] for i in range(0, len(data), n)]
split_blocks(data, n) ==
    [j \in 1..((Len(data) + n - 1) \div n) |-> slice(data, (j - 1) * n, j * n)]

RECURSIVE join(_)
join(blocks) ==
    IF blocks = <<>> THEN <<>> ELSE Head(blocks) \o join(Tail(blocks))

----------------------------------------------------------------------------
\* HyperchaosBlockCipher._pad_data / _unpad_data

pad_data(data, bs) ==
    LET padding_len == bs - (Len(data) % bs)
        padding == IF padding_len = bs
                   THEN bytes_repeat(bs, bs)
                   ELSE bytes_repeat(padding_len, padding_len)
    IN  IF IsOk(padding) THEN Ok(data \o padding.val) ELSE padding

unpad_data(data) ==
    IF data = <<>> THEN <<>>
    ELSE LET padding_len == data[Len(data)]
         IN  slice_drop_last(data, padding_len)

----------------------------------------------------------------------------
\* HyperchaosBlockCipher._generate_keys
\*
\* The round keys are a deterministic function of the key bytes: SHA-256 of
\* the key seeds the five-dimensional ODE system, whose RK45 trajectory is
\* rendered into rounds * half_block_size bytes after 200 skipped samples.
\* Neither the digest nor the floating-point integration is computed here;
\* key_hash and chaotic_byte stand for them by integer mixing functions that
\* keep what the cipher relies on: equal keys give equal streams, every
\* sample is one byte, and the stream is cut into consecutive blocks.

\* hashlib.sha256(key).digest(), as a seed: the bytes lo..hi of the key
\* are digested by halves
RECURSIVE key_hash_range(_, _, _)
key_hash_range(k, lo, hi) ==
    IF lo > hi THEN 7
    ELSE IF lo = hi THEN (k[lo] + 1) * (2 * lo + 1)
    ELSE LET mid == (lo + hi) \div 2
         IN  (key_hash_range(k, lo, mid) * 31
                + key_hash_range(k, mid + 1, hi) + hi) % 65521

key_hash(k) == key_hash_range(k, 1, Len(k))

\* byte i (0-based) of HyperchaosSystem.generate_bytes(state, n, skip):
\* int((|x| * 128 + |y| * 128) % 256) at sample skip + i
chaotic_byte(seed, skip, i) ==
    ((seed + 1) * (skip + i + 1) + ((skip + i) * (skip + i)) \div 7) % 256

\* HyperchaosSystem.generate_bytes
generate_bytes(seed, num_bytes, skip) ==
    [i \in 1..num_bytes |-> chaotic_byte(seed, skip, i - 1)]

\* a chunking that steps by one byte instead of the block size, so that
\* consecutive blocks overlap
generate_block_overlapping(seed, blk_size, num_blocks, skip) ==
    LET bsz == Max(1, blk_size)
        nb == Max(1, num_blocks)
        sk == Max(50, skip)
        total_bytes == bsz * nb
        byte_sequence == generate_bytes(seed, total_bytes, sk)
    IN  [j \in 1..nb |-> slice(byte_sequence, j - 1, j - 1 + bsz)]

\* HyperchaosSystem.generate_block, behind ChaosInterface.generate_block
generate_block(seed, blk_size, num_blocks, skip) ==
    LET bsz == Max(1, blk_size)
        nb == Max(1, num_blocks)
        sk == Max(50, skip)
        total_bytes == bsz * nb
        byte_sequence == generate_bytes(seed, total_bytes, sk)
    IN  [j \in 1..nb |-> slice(byte_sequence, (j - 1) * bsz, j * bsz)]

generate_keys(k, nrounds, bs) ==
    generate_block(key_hash(k), bs \div 2, nrounds, 200)

----------------------------------------------------------------------------
\* HyperchaosSystem.generate_keystream / generate_bytes and the wrapper
\* ChaoticSystem.generate_bytes, with the samples of the trajectory they read.
\* A sample is named by its 0-based position in the trajectory.

\* HyperchaosSystem.generate_sequence: one sample per requested point
trajectory_samples(total_points) == [j \in 1..Max(0, total_points) |-> j - 1]

\* HyperchaosSystem.generate_keystream: trajectory[:, skip:skip+length] of a
\* trajectory of length + skip points
generate_keystream(length, skip) ==
    slice(trajectory_samples(length + skip), skip, skip + length)

\* HyperchaosSystem.generate_bytes: [total_points, samples, err, bytes]
system_generate_bytes(seed, num_bytes, skip) ==
    LET keystream == generate_keystream(num_bytes, skip)
    IN  IF Len(keystream) < num_bytes
        THEN [total_points |-> num_bytes + skip, samples |-> keystream,
              err |-> "IndexError", bytes |-> <<>>]
        ELSE [total_points |-> num_bytes + skip, samples |-> keystream,
              err |-> "none",
              bytes |-> [i \in 1..num_bytes |-> chaotic_byte(seed, 0, keystream[i])]]

\* ChaoticSystem.generate_bytes: num_bytes and skip are raised to 1 and 50
interface_generate_bytes(seed, num_bytes, skip) ==
    system_generate_bytes(seed, Max(1, num_bytes), Max(50, skip))

----------------------------------------------------------------------------
\* The initial state of the trajectory. A component is written in tenths, so
\* that 1 stands for the 0.1 the wrapper pads with.

\* initial_state + [0.1] * (5 - len(initial_state)) when len(initial_state) < 5
pad_state(initial_state) ==
    IF Len(initial_state) < 5
    THEN initial_state \o [i \in 1..(5 - Len(initial_state)) |-> 1]
    ELSE initial_state

\* x, y, w, u, v = state in HyperchaosSystem._system_equations
system_equations(state) ==
    IF Len(state) = 5 THEN Ok(state) ELSE Raise("ValueError")

\* ChaosInterface.generate_sequence / generate_keystream / generate_bytes /
\* generate_block: the state is padded, then integrated by the system
interface_call(operation, initial_state) ==
    LET state == pad_state(initial_state)
        solved == system_equations(state)
    IN  [operation |-> operation, state |-> state, err |-> solved.err]

----------------------------------------------------------------------------
\* HyperchaosBlockCipher._hyperchaotic_round

\* ((b >> 1) | (b << 7)) & 0xFF
rotr1(b) == (b \div 2) + (b % 2) * 128

\* a shift that drops the two bits a rotation brings round
rotl2_shift_only(b) == (b * 4) % 256

\* ((b << 2) | (b >> 6)) & 0xFF
rotl2(b) == ((b * 4) % 256) + (b \div 64)

mix_byte(result, i, round_num) ==
    LET n == Len(result)
        prev == result[((i - 2) % n) + 1]
        next == result[(i % n) + 1]
    IN  IF round_num % 3 = 0
        THEN Xor(rotr1(result[i]), (prev + round_num) % 256)
        ELSE IF round_num % 3 = 1
        THEN Xor(rotl2(result[i]), (next + round_num) % 256)
        ELSE (Xor(Xor(result[i], prev), next) + round_num) % 256

hyperchaotic_round(half_block, round_key, round_num, sb) ==
    LET n == Len(half_block)
        xored == Force([i \in 1..n |->
                    Xor(half_block[i], round_key[((i - 1) % Len(round_key)) + 1])])
        result == Force([i \in 1..n |-> sb[(xored[i] % Len(sb)) + 1] % 256])
    IN  Force([i \in 1..n |-> mix_byte(result, i, round_num)])

----------------------------------------------------------------------------
\* HyperchaosBlockCipher._process_block

\* one pass of the round loop: (L, R) <- (R, L xor F(R, key[r], r));
\* an empty F output under a non-empty L is a modulo by zero
feistel_round(LR, round_keys, round_num, sb) ==
    IF LR.err # "none" THEN LR
    ELSE LET L == LR.L
             R == LR.R
             transformed == hyperchaotic_round(R, round_keys[round_num + 1], round_num, sb)
         IN  IF Len(L) > 0 /\ Len(transformed) = 0
             THEN [err |-> "ZeroDivisionError", L |-> <<>>, R |-> <<>>]
             ELSE [err |-> "none",
                   L |-> R,
                   R |-> Force([i \in 1..Len(L) |->
                          Xor(L[i], transformed[((i - 1) % Len(transformed)) + 1])])]

RECURSIVE feistel_rounds(_, _, _, _)
feistel_rounds(LR, round_keys, key_sequence, sb) ==
    IF key_sequence = <<>> THEN LR
    ELSE feistel_rounds(feistel_round(LR, round_keys, Head(key_sequence), sb),
                        round_keys, Tail(key_sequence), sb)

\* the ascending order whatever the direction
key_sequence_ascending(nrounds, is_encrypt) == [i \in 1..nrounds |-> i - 1]

\* range(rounds) or range(rounds - 1, -1, -1)
key_sequence_of(nrounds, is_encrypt) ==
    IF is_encrypt THEN [i \in 1..nrounds |-> i - 1]
    ELSE [i \in 1..nrounds |-> nrounds - i]

\* the halves joined as the loop left them, without the final swap
process_block_unswapped(block, round_keys, is_encrypt, nrounds, sb) ==
    LET half_size == Len(block) \div 2
        L == slice(block, 0, half_size)
        R == slice(block, half_size, Len(block))
        LR == feistel_rounds([err |-> "none", L |-> L, R |-> R], round_keys,
                             key_sequence_of(nrounds, is_encrypt), sb)
    IN  IF LR.err # "none" THEN Raise(LR.err) ELSE Ok(LR.L \o LR.R)

process_block(block, round_keys, is_encrypt, nrounds, sb) ==
    LET half_size == Len(block) \div 2
        L == slice(block, 0, half_size)
        R == slice(block, half_size, Len(block))
        LR == feistel_rounds([err |-> "none", L |-> L, R |-> R], round_keys,
                             key_sequence_of(nrounds, is_encrypt), sb)
    IN  IF LR.err # "none" THEN Raise(LR.err) ELSE Ok(LR.R \o LR.L)

----------------------------------------------------------------------------
\* HyperchaosBlockCipher.encrypt

\* a default key that ignores the S-box
default_key_zero(sb) == [i \in 1..32 |-> 0]

\* the key used when the caller passes none: 32 bytes, the first
\* min(32, sbox_size) of them sbox[i] % 256
default_key(sb) ==
    [i \in 1..32 |-> IF i <= Min(32, Len(sb)) THEN sb[i] % 256 ELSE 0]

resolve_key(k, sb) == IF k.given THEN k.bytes ELSE default_key(sb)

\* block[i] ^ prev_block[i] for i in range(block_size)
xor_block(block, prev_block, bs) ==
    Force([i \in 1..bs |-> Xor(block[i], prev_block[i])])

\* the CBC loop of encrypt: acc collects the ciphertext blocks
RECURSIVE encrypt_blocks(_, _, _, _, _, _, _)
encrypt_blocks(blocks, prev_block, round_keys, nrounds, bs, sb, acc) ==
    IF blocks = <<>> THEN Ok(acc)
    ELSE LET xored_block == xor_block(Head(blocks), prev_block, bs)
             encrypted_block == process_block(xored_block, round_keys, TRUE, nrounds, sb)
         IN  IF ~IsOk(encrypted_block) THEN encrypted_block
             ELSE encrypt_blocks(Tail(blocks), encrypted_block.val, round_keys,
                                 nrounds, bs, sb, Append(acc, encrypted_block.val))

\* the call's result and what it did on the way:
\* [err, val, joined, keygen_calls, block_calls]
encrypt(plaintext, k, drawn_iv, nrounds, bs, sb) ==
    LET round_keys == generate_keys(resolve_key(k, sb), nrounds, bs)
        padded_plaintext == pad_data(plaintext, bs)
    IN  IF ~IsOk(padded_plaintext)
        THEN [err |-> padded_plaintext.err, val |-> <<>>, joined |-> <<>>,
              keygen_calls |-> 1, block_calls |-> 0]
        ELSE LET blocks == split_blocks(padded_plaintext.val, bs)
                 ciphertext_blocks ==
                     encrypt_blocks(blocks, drawn_iv, round_keys, nrounds, bs, sb, <<>>)
             IN  IF ~IsOk(ciphertext_blocks)
                 THEN [err |-> ciphertext_blocks.err, val |-> <<>>, joined |-> <<>>,
                       keygen_calls |-> 1, block_calls |-> Len(blocks)]
                 ELSE [err |-> "none",
                       val |-> drawn_iv \o join(ciphertext_blocks.val),
                       joined |-> padded_plaintext.val,
                       keygen_calls |-> 1, block_calls |-> Len(blocks)]

----------------------------------------------------------------------------
\* HyperchaosBlockCipher.decrypt

\* a test that never finds the input exhausted
nothing_after_iv_never(rest) == FALSE

\* "if not ciphertext": nothing is left once the IV is removed
nothing_after_iv(rest) == rest = <<>>

\* decrypted_block[i] ^ prev_block[i % len(prev_block)]
xor_chain(decrypted_block, prev_block) ==
    Force([i \in 1..Len(decrypted_block) |->
        Xor(decrypted_block[i], prev_block[((i - 1) % Len(prev_block)) + 1])])

\* the CBC loop of decrypt: acc collects the plaintext blocks
RECURSIVE decrypt_blocks(_, _, _, _, _, _)
decrypt_blocks(blocks, prev_block, round_keys, nrounds, sb, acc) ==
    IF blocks = <<>> THEN Ok(acc)
    ELSE LET block == Head(blocks)
             decrypted_block == process_block(block, round_keys, FALSE, nrounds, sb)
         IN  IF ~IsOk(decrypted_block) THEN decrypted_block
             ELSE decrypt_blocks(Tail(blocks), block, round_keys, nrounds, sb,
                                 Append(acc, xor_chain(decrypted_block.val, prev_block)))

decrypt(ciphertext, k, nrounds, bs, sb) ==
    LET head_iv == slice(ciphertext, 0, bs)
        rest == slice(ciphertext, bs, Len(ciphertext))
    IN  IF nothing_after_iv(rest)
        THEN [err |-> "none", val |-> <<>>, joined |-> <<>>,
              keygen_calls |-> 0, block_calls |-> 0]
        ELSE LET round_keys == generate_keys(resolve_key(k, sb), nrounds, bs)
                 blocks == split_blocks(rest, bs)
                 plaintext_blocks ==
                     decrypt_blocks(blocks, head_iv, round_keys, nrounds, sb, <<>>)
             IN  IF ~IsOk(plaintext_blocks)
                 THEN [err |-> plaintext_blocks.err, val |-> <<>>, joined |-> <<>>,
                       keygen_calls |-> 1, block_calls |-> Len(blocks)]
                 ELSE [err |-> "none",
                       val |-> unpad_data(join(plaintext_blocks.val)),
                       joined |-> join(plaintext_blocks.val),
                       keygen_calls |-> 1, block_calls |-> Len(blocks)]

----------------------------------------------------------------------------
\* HyperchaosBlockCipher.generate_test_sequence

\* hash(bytes(self.sbox[:16])) raises when one of the entries is no byte
sbox_prefix_is_bytes(sb) ==
    \A i \in 1..Min(16, Len(sb)) : sb[i] \in 0..255

\* "for r in range(min(4, self.rounds))" on one chunk, from round r on
RECURSIVE mix_chunk(_, _, _, _, _)
mix_chunk(chunk, round_keys, r, last, sb) ==
    IF r >= last THEN chunk
    ELSE mix_chunk(hyperchaotic_round(chunk, round_keys[(r % Len(round_keys)) + 1], r, sb),
                   round_keys, r + 1, last, sb)

\* generate_test_sequence(sequence_size, entropy) for the initial state
\* (seed) that the entropy string, the cipher and the clock gave
generate_test_sequence(sequence_size, entropy_given, seed, nrounds, bs, sb) ==
    IF entropy_given /\ ~sbox_prefix_is_bytes(sb) THEN Raise("ValueError")
    ELSE LET raw_bytes == interface_generate_bytes(seed, sequence_size + 16, 100).bytes
         IN  IF Len(raw_bytes) > 32
             THEN LET k == slice(raw_bytes, 0, 32)
                      rest == slice(raw_bytes, 32, Len(raw_bytes))
                      round_keys == generate_keys(k, nrounds, bs)
                      chunks == split_blocks(rest, bs \div 2)
                      processed_bytes ==
                          join([c \in 1..Len(chunks) |->
                                  mix_chunk(chunks[c], round_keys, 0, Min(4, nrounds), sb)])
                  IN  Ok(slice(processed_bytes, 0, sequence_size))
             ELSE Ok(slice(raw_bytes, 0, sequence_size))

----------------------------------------------------------------------------
\* ChebyshevPoly (chaos/chebyshev.py).  Python integers are unbounded; the
\* products of two residues are formed by MulMod so that no intermediate
\* value leaves the range of the model checker's integers.

\* v is computed before what follows uses it
Forced(v) == v = v

\* (a * b) % q for 0 <= a < q: double-and-add over the bits of b
RECURSIVE MulModBits(_, _, _)
MulModBits(a, b, q) ==
    IF b = 0 THEN 0
    ELSE LET d == (2 * MulModBits(a, b \div 2, q)) % q
         IN  IF b % 2 = 1 THEN (d + a) % q ELSE d

\* (a * b) % q
MulMod(a, b, q) ==
    LET ar == a % q
        br == b % q
    IN  IF ar < 32768 /\ br < 32768 THEN (ar * br) % q
        ELSE MulModBits(ar, br, q)

\* a loop body that adds T_{n-2} where the recurrence subtracts it
recurrence_step_plus(t, x, q) ==
    [t0 |-> t.t1, t1 |-> (MulMod(MulMod(2, x, q), t.t1, q) + t.t0) % q]

\* the body of the loop of _recursive_eval:
\*     t_next = (2 * x * t1 - t0) % self.mod ; t0, t1 = t1, t_next
recurrence_step(t, x, q) ==
    [t0 |-> t.t1, t1 |-> (MulMod(MulMod(2, x, q), t.t1, q) - t.t0) % q]

\* n passes of the loop body, the first half of them before the second
RECURSIVE recurrence_steps(_, _, _, _)
recurrence_steps(t, n, x, q) ==
    IF n = 0 THEN t
    ELSE IF n = 1 THEN recurrence_step(t, x, q)
    ELSE LET half == recurrence_steps(t, n \div 2, x, q)
         IN  IF Forced(half) THEN recurrence_steps(half, n - (n \div 2), x, q)
             ELSE half

\* ChebyshevPoly._recursive_eval: for _ in range(2, degree + 1)
recursive_eval(degree, x, q) ==
    IF degree = 0 THEN 1
    ELSE IF degree = 1 THEN x
    ELSE recurrence_steps([t0 |-> 1, t1 |-> x], degree - 1, x, q).t1

\* an entry-by-entry product in place of the matrix product
matrix_multiply_entrywise(a, b, q) ==
    << <<MulMod(a[1][1], b[1][1], q), MulMod(a[1][2], b[1][2], q)>>,
       <<MulMod(a[2][1], b[2][1], q), MulMod(a[2][2], b[2][2], q)>> >>

\* ChebyshevPoly._matrix_multiply on 2x2 matrices <<row 1, row 2>>: every
\* entry is reduced after each multiply-add
matrix_multiply(a, b, q) ==
    LET entry(i, j) ==
            (((0 + MulMod(a[i][1], b[1][j], q)) % q) + MulMod(a[i][2], b[2][j], q)) % q
    IN  << <<entry(1, 1), entry(1, 2)>>, <<entry(2, 1), entry(2, 2)>> >>

\* ChebyshevPoly._matrix_pow: the loop "while power > 0"
RECURSIVE matrix_pow_loop(_, _, _, _)
matrix_pow_loop(result, matrix, power, q) ==
    IF power > 0
    THEN LET result_next == IF power % 2 = 1
                            THEN matrix_multiply(result, matrix, q)
                            ELSE result
             matrix_next == matrix_multiply(matrix, matrix, q)
         IN  IF Forced(result_next) /\ Forced(matrix_next)
             THEN matrix_pow_loop(result_next, matrix_next, power \div 2, q)
             ELSE result
    ELSE result

matrix_pow(matrix, power, q) ==
    matrix_pow_loop(<< <<1, 0>>, <<0, 1>> >>, matrix, power, q)

\* a matrix evaluation that raises the matrix to the power degree
matrix_eval_full_power(degree, x, q) ==
    LET matrix == << <<(2 * x) % q, q - 1>>, <<1, 0>> >>
        result == matrix_pow(matrix, degree, q)
    IN  (MulMod(x, result[1][1], q) + result[1][2]) % q

\* ChebyshevPoly._matrix_eval
matrix_eval(degree, x, q) ==
    LET matrix == << <<(2 * x) % q, q - 1>>, <<1, 0>> >>
        result == matrix_pow(matrix, degree - 1, q)
    IN  (MulMod(x, result[1][1], q) + result[1][2]) % q

\* ChebyshevPoly.eval
eval(degree, x0, q) ==
    LET x == x0 % q
    IN  IF degree = 0 THEN 1
        ELSE IF degree = 1 THEN x
        ELSE IF degree > 100 THEN matrix_eval(degree, x, q)
        ELSE recursive_eval(degree, x, q)

\* ChebyshevTests (utils/tests/props/chebyshev_tests.py) over MathProperties
\* (utils/tests/props/properties.py)

\* generate_test_samples(count=10, max_degree=20)
default_max_degree == 20

\* list(range(2, max_degree + 1))
test_degrees(max_degree) == [i \in 1..Max(0, max_degree - 1) |-> i + 1]

\* compose(n, m) of the tests: self.cheby.eval(n * m, x) % self.modulus
compose(n, m, x, q) == eval(n * m, x, q) % q

\* samples[:5] if len(samples) > 5 else samples
first_five(samples) == SubSeq(samples, 1, Min(5, Len(samples)))

\* MathProperties._test_closure: passed
test_closure(samples, x, q) ==
    LET sample_set == { samples[i] : i \in 1..Len(samples) }
    IN  \A i \in 1..Len(samples), j \in 1..Len(samples) :
            compose(samples[i], samples[j], x, q) \in sample_set

\* MathProperties.test_associativity: passed
test_associativity(samples, x, q) ==
    LET test_samples == first_five(samples)
        S == { test_samples[i] : i \in 1..Len(test_samples) }
    IN  \A a \in S, b \in S, c \in S :
            compose(compose(a, b, x, q), c, x, q)
                = compose(a, compose(b, c, x, q), x, q)

\* MathProperties.test_semigroup: the results of both components and passed
test_semigroup(samples, x, q) ==
    LET closure == test_closure(samples, x, q)
        assoc == test_associativity(first_five(samples), x, q)
    IN  [closure |-> closure, associativity |-> assoc, passed |-> closure /\ assoc]

\* @lru_cache(maxsize=1024) on _recursive_eval
lru_maxsize == 1024

\* a cache key that leaves the instance out: every call is keyed as if made
\* on the first evaluator
cache_key_without_self(self, degree, x) ==
    [self |-> 1, degree |-> degree, x |-> x]

\* the key lru_cache makes of the arguments (self, degree, x); an instance
\* hashes and compares by identity, and the cache keeps it alive
cache_key(self, degree, x) ==
    [self |-> self, degree |-> degree, x |-> x]

\* the entry moved to the most recently used end
move_to_end(c, i) ==
    SubSeq(c, 1, i - 1) \o SubSeq(c, i + 1, Len(c)) \o <<c[i]>>

\* self._recursive_eval(degree, x) through lru_cache, on instance self of
\* modulus q: [hit, value, cache]
cached_recursive_eval(c, self, q, degree, x) ==
    LET k == cache_key(self, degree, x)
        hits == {i \in 1..Len(c) : c[i].key = k}
    IN  IF hits # {}
        THEN LET i == CHOOSE i \in hits : TRUE
             IN  [hit |-> TRUE, value |-> c[i].value, cache |-> move_to_end(c, i)]
        ELSE LET value == recursive_eval(degree, x, q)
                 added == Append(c, [key |-> k, value |-> value])
             IN  [hit |-> FALSE, value |-> value,
                  cache |-> IF Len(added) > lru_maxsize THEN Tail(added) ELSE added]

\* ChebyshevPoly.eval on instance self of modulus q, with the cache
cached_eval(c, self, q, degree, x0) ==
    LET x == x0 % q
    IN  IF degree = 0 THEN [hit |-> FALSE, value |-> 1, cache |-> c]
        ELSE IF degree = 1 THEN [hit |-> FALSE, value |-> x, cache |-> c]
        ELSE IF degree > 100
        THEN [hit |-> FALSE, value |-> matrix_eval(degree, x, q), cache |-> c]
        ELSE cached_recursive_eval(c, self, q, degree, x)

\* ChaoticSystem.create_chebyshev_calculator: the modulus is raised to 2
create_chebyshev_calculator(modulus) == Max(2, modulus)

----------------------------------------------------------------------------
\* ChebyshevDH (crypto/dh.py).  The instance is the record
\* [private_bits, public_bits, mod, param]; its evaluator is eval at
\* create_chebyshev_calculator(mod).

\* n < 2^30 has no divisor d with 2 <= d and d * d <= n
IsPrime(n) ==
    /\ n >= 2
    /\ \A d \in 2..Min(n - 1, 32767) : d * d > n \/ n % d # 0

RECURSIVE next_prime(_)
next_prime(n) == IF IsPrime(n) THEN n ELSE next_prime(n + 1)

RECURSIVE prev_prime(_)
prev_prime(n) == IF IsPrime(n) THEN n ELSE prev_prime(n - 1)

\* sympy.randprime(a, b), a prime in [a, b): the draws are the least and the
\* greatest of them
randprime(a, b) == {next_prime(a), prev_prime(b - 1)}

\* SecureRandom.randint(a, b, entropy), an integer of [a, b] that the clock
\* picks: the draws are the ends, the middle and the degrees around the
\* dispatch threshold of eval
randint(a, b) == {a, (a + b) \div 2, b} \cup ({99, 100, 101} \cap (a..b))

\* ChebyshevDH.__init__ with the prime and the parameter that were drawn
ChebyshevDH(private_bits, mod, param) ==
    LET prime_bits == Max(MinPrimeBits, private_bits * 4)
    IN  [private_bits |-> private_bits,
         public_bits  |-> Min(private_bits * 2, prime_bits - 1),
         mod          |-> mod,
         param        |-> param]

\* instances whose parameter is drawn with as many bits as the prime
ChebyshevDH_instances_wide(private_bits) ==
    LET prime_bits == Max(MinPrimeBits, private_bits * 4)
    IN  { ChebyshevDH(private_bits, mod, param) :
              mod \in randprime(2 ^ (prime_bits - 1), 2 ^ prime_bits),
              param \in randint(2 ^ (prime_bits - 1), 2 ^ prime_bits - 1) }

\* the instances __init__ can build for private_bits
ChebyshevDH_instances(private_bits) ==
    LET prime_bits == Max(MinPrimeBits, private_bits * 4)
        param_bits == prime_bits - 1
    IN  { ChebyshevDH(private_bits, mod, param) :
              mod \in randprime(2 ^ (prime_bits - 1), 2 ^ prime_bits),
              param \in randint(2 ^ (param_bits - 1), 2 ^ param_bits - 1) }

\* self.cheby.eval
cheby_eval(d, degree, x) == eval(degree, x, create_chebyshev_calculator(d.mod))

\* a masking that leaves the top bit as it is
mask_public_unforced(raw_public, public_bits) == raw_public % (2 ^ public_bits)

\* (raw_public & mask) | (2 ** (public_bits - 1))
mask_public(raw_public, public_bits) ==
    LET low == raw_public % (2 ^ public_bits)
        top == 2 ^ (public_bits - 1)
    IN  IF (low \div top) % 2 = 1 THEN low ELSE low + top

\* ChebyshevDH.generate_keypair with the private exponent that was drawn
generate_keypair(d, private) ==
    LET raw_public == cheby_eval(d, private, d.param)
    IN  [private |-> private,
         public  |-> mask_public(raw_public, d.public_bits) % d.mod,
         raw     |-> raw_public]

\* the private exponents generate_keypair can draw
private_draws(d) == randint(2 ^ (d.private_bits - 1), 2 ^ d.private_bits - 1)

\* ChebyshevDH.compute_shared
compute_shared(d, private, other_public) == cheby_eval(d, private, other_public)

\* an exchange in which each party is handed the other's masked public value
simulate_exchange_masked(d, alice_private, bob_private) ==
    LET alice == generate_keypair(d, alice_private)
        bob == generate_keypair(d, bob_private)
        alice_shared == compute_shared(d, alice.private, bob.public)
        bob_shared == compute_shared(d, bob.private, alice.public)
    IN  [op |-> "exchange",
         alice_private |-> alice.private, alice_public |-> alice.public,
         alice_raw_public |-> alice.raw,
         bob_private |-> bob.private, bob_public |-> bob.public,
         bob_raw_public |-> bob.raw,
         alice_shared |-> alice_shared, bob_shared |-> bob_shared,
         match |-> alice_shared = bob_shared]

\* ChebyshevDH.simulate_exchange with the private exponents that were drawn
simulate_exchange(d, alice_private, bob_private) ==
    LET alice == generate_keypair(d, alice_private)
        bob == generate_keypair(d, bob_private)
        alice_shared == compute_shared(d, alice.private, bob.raw)
        bob_shared == compute_shared(d, bob.private, alice.raw)
    IN  [op |-> "exchange",
         alice_private |-> alice.private, alice_public |-> alice.public,
         alice_raw_public |-> alice.raw,
         bob_private |-> bob.private, bob_public |-> bob.public,
         bob_raw_public |-> bob.raw,
         alice_shared |-> alice_shared, bob_shared |-> bob_shared,
         match |-> alice_shared = bob_shared]

----------------------------------------------------------------------------
\* HyperchaosBoxGenerator (crypto/sbox.py).  The trajectory of the chaotic
\* system is a numerical solution that is not computed here: each value read
\* from it is an arbitrary non-negative number, drawn when it is read.

\* ChaoticSystem.generate_sequence: the number of trajectory points it
\* produces when asked for box_size * 2
trajectory_points(box_size) == Max(10, Min(box_size * 2, 100000))

\* list(range(box_size))
identity_sbox(box_size) == [k \in 1..Max(0, box_size) |-> k - 1]

\* an exchange through the table itself, which loses the entry at i
swap_overwriting(sb, i, j) == [sb EXCEPT ![i + 1] = sb[j + 1]]

\* sbox[i], sbox[swap_index] = sbox[swap_index], sbox[i]
swap(sb, i, j) == [sb EXCEPT ![i + 1] = sb[j + 1], ![j + 1] = sb[i + 1]]

\* int(combined_value * (i + 1)) % (i + 1), for the integer part that the
\* trajectory gave
shuffle_index(scaled, i) == scaled % (i + 1)

\* generate(), seen at pass i of its loop: the trajectory it asked for and
\* got, the table it starts from, and the swap index of that pass for the
\* integer part that the trajectory gave
generate_pass(box_size, i, scaled) ==
    LET num_points == trajectory_points(box_size)
    IN  [box_size |-> box_size,
         requested_points |-> box_size * 2,
         num_points |-> num_points,
         table_size |-> Max(0, box_size),
         i |-> i,
         err |-> IF i >= num_points THEN "IndexError" ELSE "none",
         swap_index |-> IF i >= num_points THEN 0 - 1 ELSE shuffle_index(scaled, i)]

\* SecureRandom.chaotic_randint(a, b): a + (value % (b - a + 1)), for the
\* 8-byte value that the chaotic bytes gave
chaotic_randint(a, b, value) == a + (value % (b - a + 1))

----------------------------------------------------------------------------
\* SecurityParams (crypto/security.py), the factories of CryptoInterface
\* (crypto/cryptic.py) and the constructors they call.  An optional integer
\* argument is a record [given, value].

MIN_FEISTEL_ROUNDS == 8
DEFAULT_FEISTEL_ROUNDS == 16
MIN_BLOCK_SIZE == 8
DEFAULT_BLOCK_SIZE == 8
MAX_BLOCK_SIZE == 1024
MIN_SBOX_SIZE == 16
DEFAULT_SBOX_SIZE == 256
MAX_SBOX_SIZE == 65536

None == [given |-> FALSE, value |-> 0]
Some(v) == [given |-> TRUE, value |-> v]

\* CryptoInterface.validate_feistel_params
validate_feistel_params(rounds_arg, block_size_arg) ==
    LET rounds0 == IF rounds_arg.given THEN rounds_arg.value ELSE DEFAULT_FEISTEL_ROUNDS
        block_size0 == IF block_size_arg.given THEN block_size_arg.value
                       ELSE DEFAULT_BLOCK_SIZE
        rounds1 == Max(rounds0, MIN_FEISTEL_ROUNDS)
        block_size1 == Max(Min(block_size0, MAX_BLOCK_SIZE), MIN_BLOCK_SIZE)
    IN  [rounds |-> rounds1,
         block_size |-> IF block_size1 % 2 # 0 THEN block_size1 + 1 ELSE block_size1]

\* HyperchaosBlockCipher.__init__: the fields of the instance
HyperchaosBlockCipher(sb, nrounds, bs) ==
    [rounds |-> nrounds, block_size |-> bs, half_block_size |-> bs \div 2,
     sbox |-> sb, sbox_size |-> Len(sb)]

\* CryptoInterface.create_block_cipher
create_block_cipher(sb, nrounds, bs) ==
    LET feistel_params == validate_feistel_params(Some(nrounds), Some(bs))
    IN  HyperchaosBlockCipher(sb, feistel_params.rounds, feistel_params.block_size)

\* a doubling that stops one step early, at the greatest power of two that
\* does not exceed box_size
RECURSIVE power_below(_, _)
power_below(power, box_size) ==
    IF power * 2 <= box_size THEN power_below(power * 2, box_size) ELSE power

\* "while power < box_size: power *= 2"
RECURSIVE power_from(_, _)
power_from(power, box_size) ==
    IF power < box_size THEN power_from(power * 2, box_size) ELSE power

\* CryptoInterface.validate_sbox_params
validate_sbox_params(box_size_arg) ==
    LET box_size0 == IF box_size_arg.given THEN box_size_arg.value ELSE DEFAULT_SBOX_SIZE
        box_size1 == Max(Min(box_size0, MAX_SBOX_SIZE), MIN_SBOX_SIZE)
    IN  [box_size |-> power_from(1, box_size1)]

\* HyperchaosBoxGenerator.__init__: the fields of the instance
HyperchaosBoxGenerator(shared_secret, box_size) ==
    [box_size |-> box_size, shared_secret |-> shared_secret]

\* CryptoInterface.create_sbox_generator
create_sbox_generator(shared_secret, box_size) ==
    LET box_size_params == validate_sbox_params(Some(box_size))
    IN  HyperchaosBoxGenerator(shared_secret, box_size_params.box_size)

----------------------------------------------------------------------------
\* HyperchaosBoxGenerator.generate / generate_with_avalanche as functions of
\* what they read.  An initial state of the chaotic system is the record
\* [seed, bump]: the number that stands for the five components, and how many
\* times "initial_state[0] += 0.01; initial_state[0] %= 1.0" has been applied.
\* clock is the value time.time() returns during the call.

\* shared_secret.to_bytes((shared_secret.bit_length() + 7) // 8, 'big')
RECURSIVE to_bytes(_)
to_bytes(n) == IF n = 0 THEN <<>> ELSE Append(to_bytes(n \div 256), n % 256)

\* HyperchaosBoxGenerator._generate_initial_state: from the hash of the
\* secret's bytes
secret_initial_state(shared_secret) ==
    [seed |-> key_hash(to_bytes(shared_secret)), bump |-> 0]

\* SecureRandom.generate_initial_state(entropy): from the hash of
\* f"{entropy}{time.time()}"
generate_initial_state(entropy, clock) ==
    [seed |-> (entropy * 31 + clock * 17 + 5) % 65521, bump |-> 0]

\* [0.1, 0.2, 0.3, 0.4, 0.5]
default_initial_state == [seed |-> 12345, bump |-> 0]

\* the number that stands for the state after its bumps
state_seed(state) == (state.seed + 7 * state.bump) % 65521

\* int.from_bytes(sequence, byteorder='big') % m
RECURSIVE from_bytes_mod(_, _)
from_bytes_mod(sequence, m) ==
    IF sequence = <<>> THEN 0
    ELSE (from_bytes_mod(SubSeq(sequence, 1, Len(sequence) - 1), m) * 256
            + sequence[Len(sequence)]) % m

\* SecureRandom.chaotic_randint(a, b, entropy, initial_state) at time clock
chaotic_randint_call(a, b, entropy, initial_state, clock) ==
    LET state == IF entropy.given /\ ~initial_state.given
                 THEN generate_initial_state(entropy.value, clock)
                 ELSE IF ~initial_state.given THEN default_initial_state
                 ELSE initial_state.value
        sequence == generate_bytes(state_seed(state), 8, 100)
    IN  chaotic_randint(a, b, from_bytes_mod(sequence, b - a + 1))

\* int(abs(x_values[i] + y_values[i]) * (i + 1)) for the trajectory of state
sample_scaled(state, i) == chaotic_byte(state_seed(state), 0, i) * (i + 1)
                             + chaotic_byte(state_seed(state), 1, i)

\* the loop of generate() from pass i down
RECURSIVE shuffle_from(_, _, _)
shuffle_from(sb, i, state) ==
    IF i < 1 THEN sb
    ELSE shuffle_from(swap(sb, i, shuffle_index(sample_scaled(state, i), i)),
                      i - 1, state)

\* HyperchaosBoxGenerator.generate
generate(shared_secret, box_size) ==
    shuffle_from(identity_sbox(box_size), box_size - 1,
                 secret_initial_state(shared_secret))

\* a swap index drawn from the secret as entropy and the time of the call
avalanche_swap_index_by_entropy(i, initial_state, shared_secret, clock) ==
    chaotic_randint_call(0, i, Some(shared_secret), None, clock)

\* SecureRandom.chaotic_randint(0, i, initial_state=initial_state)
avalanche_swap_index(i, initial_state, shared_secret, clock) ==
    chaotic_randint_call(0, i, None, Some(initial_state), clock)

\* the loop of generate_with_avalanche() from pass i down
RECURSIVE avalanche_from(_, _, _, _, _)
avalanche_from(sb, i, state, shared_secret, clock) ==
    IF i < 1 THEN sb
    ELSE avalanche_from(
             swap(sb, i, avalanche_swap_index(i, state, shared_secret, clock)),
             i - 1, [state EXCEPT !.bump = @ + 1], shared_secret, clock)

\* HyperchaosBoxGenerator.generate_with_avalanche
generate_with_avalanche(shared_secret, box_size, clock) ==
    avalanche_from(generate(shared_secret, box_size), box_size - 1,
                   secret_initial_state(shared_secret), shared_secret, clock)

\* generator.generate() or generator.generate_with_avalanche() at time clock
generator_call(mode, shared_secret, box_size, clock) ==
    IF mode = "generate" THEN generate(shared_secret, box_size)
    ELSE generate_with_avalanche(shared_secret, box_size, clock)

----------------------------------------------------------------------------
\* The block cipher as a state machine: an instance is constructed, then
\* encrypt and decrypt are called on it in any order.

\* configurations: rounds >= 8 and an even block_size >= 8 (the range
\* SecurityParams.validate_feistel_params admits is 8 .. 1024)
\* substitution tables: a permutation of 0..15 (the smallest size the S-box
\* policy admits), and a short table that is not a permutation and holds
\* values above 255
SBoxPermutation == <<7, 12, 1, 14, 3, 0, 9, 10, 5, 15, 2, 13, 8, 6, 11, 4>>
SBoxIrregular == <<300, 7, 7, 0, 713>>

ConfigChoices ==
    { [rounds |-> 8, block_size |-> 8, sbox |-> SBoxPermutation],
      [rounds |-> 9, block_size |-> 8, sbox |-> SBoxIrregular],
      [rounds |-> 9, block_size |-> 10, sbox |-> SBoxPermutation],
      [rounds |-> 8, block_size |-> 256, sbox |-> SBoxPermutation] }

\* byte strings of every length up to n: b[i] = (first + i * step) % 256
Pattern(n, first, step) == [i \in 1..n |-> (first + (i - 1) * step) % 256]

Plaintexts == { Pattern(n, 0, 1) : n \in 0..MaxPlainLen }

KeyChoices == { NoKey, KeyOf(<<>>), KeyOf(<<116, 101, 115, 116>>) }

\* os.urandom(block_size): two of the values it can return
IVChoices(bs) == { Pattern(bs, 0, 0), Pattern(bs, 165, 7) }

\* what a caller may hand to decrypt after an encrypt: the ciphertext, the
\* ciphertext with its last byte or an IV byte changed, with a byte cut off
\* or added, and inputs no longer than the IV
Flip(c, i) == [c EXCEPT ![i] = Xor(c[i], 1)]

DecryptInputs(c, bs) ==
    IF c = <<>> THEN { <<>>, Pattern(3, 9, 1), Pattern(bs, 1, 1) }
    ELSE { c, Flip(c, Len(c)), Flip(c, bs), SubSeq(c, 1, Len(c) - 1),
           c \o <<0>>, SubSeq(c, 1, bs) }

\* the initial states of the chaotic system, by the seed that stands for them
StateSeeds == {0, 1, 2}

\* the key handed to decrypt: the one encrypt was given, or another
OtherKey == KeyOf(<<107>>)

\* the keys handed to decrypt after an encrypt under enc: the same, another,
\* and, when encrypt was given none, the default key passed explicitly
DecryptKeys(enc, sb) ==
    {enc, OtherKey} \cup (IF enc.given THEN {} ELSE {KeyOf(default_key(sb))})

\* the half blocks handed to the round function
HalfBlocks(bs) == { Pattern(bs \div 2, 0, 1), Pattern(bs \div 2, 250, 3),
                    Pattern(bs \div 2, 255, 0) }

\* the round keys handed to the round function for round r: the one
\* _generate_keys derives, and one shorter than the half block
RoundKeyChoices(r, nrounds, bs) ==
    { generate_keys(<<116, 101, 115, 116>>, nrounds, bs)[r + 1], <<1, 2, 3>> }

\* the blocks handed to _process_block
BlockChoices(bs) == { Pattern(bs, 3, 5), Pattern(bs, 0, 0) }

\* the key bytes whose round keys are handed to _process_block
KeyBytesChoices == { <<>>, <<116, 101, 115, 116>> }

\* no evaluator call has been made
ChebIdle ==
    /\ cheb_mod = 2
    /\ cheb_call = [op |-> "none"]
    /\ evaluators = <<>>
    /\ lru_cache = <<>>
    /\ memo_call = [op |-> "none", n |-> 0]

\* no key exchange has been set up
DhIdle ==
    /\ dh = [private_bits |-> 0]
    /\ exchange = [op |-> "none"]
    /\ private_source = "none"

\* no byte stream has been requested of the chaotic system
ChaosIdle == stream = [op |-> "none"]

\* nothing has been built
PolicyIdle == built = [kind |-> "none"]

\* no S-box generation is running
GenIdle == gen = [pc |-> "idle"]

\* no cipher has been used: a default configuration that is never run
CipherIdle ==
    /\ rounds = 8
    /\ block_size = 8
    /\ sbox = SBoxPermutation
    /\ op = "init"
    /\ arg = <<>>
    /\ key = NoKey
    /\ iv = <<>>
    /\ out = Ok(<<>>)
    /\ joined = <<>>
    /\ keygen_calls = 0
    /\ block_calls = 0
    /\ enc_in = <<>>
    /\ enc_key = NoKey
    /\ enc_out = Ok(<<>>)
    /\ call = [op |-> "none"]
    /\ iv_source = "none"

InitCipher ==
    /\ ChebIdle
    /\ DhIdle
    /\ GenIdle
    /\ ChaosIdle
    /\ PolicyIdle
    /\ \E c \in ConfigChoices :
         /\ rounds = c.rounds
         /\ block_size = c.block_size
         /\ sbox = c.sbox
    /\ op = "init"
    /\ arg = <<>>
    /\ key = NoKey
    /\ iv = <<>>
    /\ out = Ok(<<>>)
    /\ joined = <<>>
    /\ keygen_calls = 0
    /\ block_calls = 0
    /\ enc_in = <<>>
    /\ enc_key = NoKey
    /\ enc_out = Ok(<<>>)
    /\ call = [op |-> "none"]
    /\ iv_source = "none"

Encrypt ==
    /\ op = "init"
    /\ \E plaintext \in Plaintexts, k \in KeyChoices, drawn_iv \in IVChoices(block_size) :
        \E r \in {encrypt(plaintext, k, drawn_iv, rounds, block_size, sbox)} :
            /\ op' = "encrypt"
            /\ arg' = plaintext
            /\ key' = k
            /\ iv' = drawn_iv
            /\ out' = [err |-> r.err, val |-> r.val]
            /\ joined' = r.joined
            /\ keygen_calls' = r.keygen_calls
            /\ block_calls' = r.block_calls
            /\ enc_in' = plaintext
            /\ enc_key' = k
            /\ enc_out' = [err |-> r.err, val |-> r.val]
            /\ iv_source' = urandom_source
            /\ UNCHANGED <<rounds, block_size, sbox, call>>
            /\ UNCHANGED <<chebVars, dhVars, genVars, chaosVars, policyVars>>

\* a direct call of _pad_data
PadData ==
    /\ op = "init"
    /\ \E data \in Plaintexts :
        \E r \in {pad_data(data, block_size)} :
            /\ op' = "pad"
            /\ arg' = data
            /\ out' = r
            /\ UNCHANGED <<call, iv_source>>
            /\ UNCHANGED <<chebVars, dhVars, genVars, chaosVars, policyVars>>
            /\ UNCHANGED <<rounds, block_size, sbox, key, iv, joined, keygen_calls,
                           block_calls, enc_in, enc_key, enc_out>>

Decrypt ==
    /\ op \in {"init", "encrypt"}
    /\ \E ciphertext \in DecryptInputs(enc_out.val, block_size),
          k \in DecryptKeys(enc_key, sbox) :
        \E r \in {decrypt(ciphertext, k, rounds, block_size, sbox)} :
            /\ op' = "decrypt"
            /\ arg' = ciphertext
            /\ key' = k
            /\ iv' = slice(ciphertext, 0, block_size)
            /\ out' = [err |-> r.err, val |-> r.val]
            /\ joined' = r.joined
            /\ keygen_calls' = r.keygen_calls
            /\ block_calls' = r.block_calls
            /\ UNCHANGED <<rounds, block_size, sbox, enc_in, enc_key, enc_out,
                           call, iv_source>>
            /\ UNCHANGED <<chebVars, dhVars, genVars, chaosVars, policyVars>>

\* cipher.generate_test_sequence(sequence_size, entropy)
GenerateTestSequence ==
    /\ op = "init"
    /\ \E sequence_size \in 0..MaxTestSize, entropy_given \in BOOLEAN, seed \in StateSeeds :
         \E r \in {generate_test_sequence(sequence_size, entropy_given, seed,
                                          rounds, block_size, sbox)} :
           /\ op' = "generate_test_sequence"
           /\ call' = [op |-> "generate_test_sequence", sequence_size |-> sequence_size,
                       entropy_given |-> entropy_given, result |-> r]
    /\ UNCHANGED <<rounds, block_size, sbox, arg, key, iv, out, joined, keygen_calls,
                   block_calls, enc_in, enc_key, enc_out, iv_source>>
    /\ UNCHANGED <<chebVars, dhVars, genVars, chaosVars, policyVars>>

\* cipher._hyperchaotic_round(half_block, round_key, round_num)
HyperchaoticRound ==
    /\ op = "init"
    /\ \E round_num \in 0..(rounds - 1) :
         \E half_block \in HalfBlocks(block_size),
            round_key \in RoundKeyChoices(round_num, rounds, block_size) :
           \E r \in {hyperchaotic_round(half_block, round_key, round_num, sbox)} :
             /\ op' = "hyperchaotic_round"
             /\ call' = [op |-> "hyperchaotic_round", half_block |-> half_block,
                         round_key |-> round_key, round_num |-> round_num,
                         result |-> r]
    /\ UNCHANGED <<rounds, block_size, sbox, arg, key, iv, out, joined, keygen_calls,
                   block_calls, enc_in, enc_key, enc_out, iv_source>>
    /\ UNCHANGED <<chebVars, dhVars, genVars, chaosVars, policyVars>>

\* cipher._process_block(block, round_keys, encrypt) with the round keys
\* cipher._generate_keys(key) returned
ProcessBlock ==
    /\ op = "init"
    /\ \E block \in BlockChoices(block_size), k \in KeyBytesChoices,
          is_encrypt \in BOOLEAN :
         \E round_keys \in {generate_keys(k, rounds, block_size)} :
           \E r \in {process_block(block, round_keys, is_encrypt, rounds, sbox)} :
             /\ op' = "process_block"
             /\ call' = [op |-> "process_block", block |-> block,
                         round_keys |-> round_keys, encrypt |-> is_encrypt,
                         result |-> r]
    /\ UNCHANGED <<rounds, block_size, sbox, arg, key, iv, out, joined, keygen_calls,
                   block_calls, enc_in, enc_key, enc_out, iv_source>>
    /\ UNCHANGED <<chebVars, dhVars, genVars, chaosVars, policyVars>>

\* blocks of even length: empty, shorter than block_size, and full
EvenBlocks(bs) ==
    { Pattern(n, 3, 5) : n \in {0, 2, 6, bs} } \cup { Pattern(bs, 255, 0) }

\* round-key sets: the one _generate_keys derives, and one of three-byte keys
RoundKeySets(nrounds, bs) ==
    { generate_keys(<<116, 101, 115, 116>>, nrounds, bs),
      [r \in 1..nrounds |-> <<r, (2 * r) % 256, 7>>] }

\* cipher._process_block(cipher._process_block(block, round_keys, True),
\*                       round_keys, False)
ProcessBlockTwice ==
    /\ op = "init"
    /\ \E block \in EvenBlocks(block_size), round_keys \in RoundKeySets(rounds, block_size) :
         \E encrypted \in {process_block(block, round_keys, TRUE, rounds, sbox)} :
           \E decrypted \in {IF IsOk(encrypted)
                              THEN process_block(encrypted.val, round_keys, FALSE,
                                                 rounds, sbox)
                              ELSE encrypted} :
             /\ op' = "process_block_twice"
             /\ call' = [op |-> "process_block_twice", block |-> block,
                         round_keys |-> round_keys, encrypted |-> encrypted,
                         decrypted |-> decrypted]
    /\ UNCHANGED <<rounds, block_size, sbox, arg, key, iv, out, joined, keygen_calls,
                   block_calls, enc_in, enc_key, enc_out, iv_source>>
    /\ UNCHANGED <<chebVars, dhVars, genVars, chaosVars, policyVars>>

\* cipher._generate_keys(key), called twice with the same key
GenerateKeys ==
    /\ op = "init"
    /\ \E k \in KeyBytesChoices \cup {default_key(sbox)} :
         \E first \in {generate_keys(k, rounds, block_size)},
            second \in {generate_keys(k, rounds, block_size)} :
             /\ op' = "generate_keys"
             /\ call' = [op |-> "generate_keys", key |-> k, result |-> first,
                         again |-> second]
    /\ UNCHANGED <<rounds, block_size, sbox, arg, key, iv, out, joined, keygen_calls,
                   block_calls, enc_in, enc_key, enc_out, iv_source>>
    /\ UNCHANGED <<chebVars, dhVars, genVars, chaosVars, policyVars>>

NextCipher ==
    \/ ProcessBlockTwice
    \/ GenerateKeys
    \/ Encrypt
    \/ Decrypt
    \/ PadData
    \/ GenerateTestSequence
    \/ HyperchaoticRound
    \/ ProcessBlock

SpecCipher == InitCipher /\ [][NextCipher]_vars

----------------------------------------------------------------------------
\* Claims about the block cipher (checked under SpecCipher)

\* C1: decrypt(encrypt(plaintext, key), key) returns exactly plaintext, for
\* every configuration, S-box, key and plaintext, whatever IV was drawn:
\* every encrypt call returns a ciphertext, and decrypting that ciphertext
\* under the key encrypt was given returns the plaintext.
C1_RoundTrip ==
    /\ op = "encrypt" => out.err = "none"
    /\ (op = "decrypt" /\ arg # <<>> /\ arg = enc_out.val /\ key = enc_key)
          => out = Ok(enc_in)

\* the final byte L of d is not the length of a well-formed pad of d
MalformedPadding(d, bs) ==
    LET L == d[Len(d)]
    IN  \/ L = 0
        \/ L > bs
        \/ L > Len(d)
        \/ \E i \in (Len(d) - L + 1)..Len(d) : d[i] # L

\* C4: decrypt validates the padding of the decrypted data: when its final
\* byte L is 0, exceeds block_size, or the last L bytes are not all L, the
\* call yields empty output or an error, never the data with L bytes cut off.
C4_UnpadValidates ==
    (op = "decrypt" /\ joined # <<>> /\ MalformedPadding(joined, block_size))
        => (out.err # "none" \/ out.val = <<>>)

\* C5: _pad_data always extends its input to the smallest multiple of
\* block_size strictly greater than the input length: block_size pad bytes
\* for an aligned (or empty) input, block_size - (len mod block_size) for
\* any other, after the unchanged input.
C5_PadLength ==
    op = "pad" =>
        /\ out.err = "none"
        /\ Len(out.val) % block_size = 0
        /\ Len(out.val) > Len(arg)
        /\ Len(out.val) - block_size <= Len(arg)
        /\ Len(out.val) - Len(arg) =
              (IF Len(arg) % block_size = 0 THEN block_size
               ELSE block_size - (Len(arg) % block_size))
        /\ SubSeq(out.val, 1, Len(arg)) = arg

\* block i (0-based) of a byte string cut into blocks of bs bytes
BlockAt(data, i, bs) == SubSeq(data, i * bs + 1, (i + 1) * bs)

\* C9: encrypt returns IV || C_0 || C_1 || ... with C_0 = E(P_0 XOR IV) and
\* C_i = E(P_i XOR C_(i-1)) over the blocks P_i of the padded plaintext, of
\* total length block_size * (floor(len(plaintext) / block_size) + 2).
C9_CbcLayout ==
    op = "encrypt" =>
        /\ out.err = "none"
        /\ Len(out.val) = block_size * ((Len(arg) \div block_size) + 2)
        /\ BlockAt(out.val, 0, block_size) = iv
        /\ LET padded == pad_data(arg, block_size).val
               round_keys == generate_keys(resolve_key(key, sbox), rounds, block_size)
           IN  \A i \in 1..((Len(arg) \div block_size) + 1) :
                   BlockAt(out.val, i, block_size) =
                       process_block(
                           [j \in 1..block_size |->
                               Xor(BlockAt(padded, i - 1, block_size)[j],
                                   BlockAt(out.val, i - 1, block_size)[j])],
                           round_keys, TRUE, rounds, sbox).val

\* C10: decrypt returns the empty byte string, without deriving keys or
\* processing any block, for every input of length <= block_size.
C10_ShortInputEmpty ==
    (op = "decrypt" /\ Len(arg) <= block_size)
        => (out = Ok(<<>>) /\ keygen_calls = 0 /\ block_calls = 0)

\* C10 witness: a decrypt call handed exactly an IV
C10_Witness ==
    /\ op = "decrypt"
    /\ Len(arg) = block_size
    /\ enc_out.val # <<>>
    /\ out = Ok(<<>>)

----------------------------------------------------------------------------
\* The Chebyshev evaluator as a state machine: an evaluator is built for a
\* requested modulus and one call is made on it.

\* the moduli requested of create_chebyshev_calculator
ModulusRequests == 0..MaxModulus

\* the arguments x: negative, reduced, and beyond every modulus
XChoices == (0 - 3)..(MaxModulus + 2)

\* the degrees on either side of the dispatch threshold of eval
ThresholdDegrees == {99, 100, 101, 102}

EvalDegrees == (0..MaxDegree) \cup ThresholdDegrees \cup {MaxDegree * MaxDegree}

PathDegrees == (2..MaxDegree) \cup ThresholdDegrees \cup {MaxDegree * MaxDegree}

ComposeDegrees == (0..MaxDegree) \cup {101}

InitCheb ==
    /\ CipherIdle
    /\ DhIdle
    /\ GenIdle
    /\ ChaosIdle
    /\ PolicyIdle
    /\ \E modulus \in ModulusRequests :
         cheb_mod = create_chebyshev_calculator(modulus)
    /\ cheb_call = [op |-> "none"]
    /\ evaluators = <<>>
    /\ lru_cache = <<>>
    /\ memo_call = [op |-> "none", n |-> 0]

\* cheby.eval(degree, x)
Eval ==
    /\ cheb_call.op = "none"
    /\ \E degree \in EvalDegrees, x \in XChoices :
         cheb_call' = [op |-> "eval", degree |-> degree, x |-> x,
                       result |-> eval(degree, x, cheb_mod)]
    /\ UNCHANGED <<cheb_mod, evaluators, lru_cache, memo_call>>
    /\ UNCHANGED <<cipherVars, dhVars, genVars, chaosVars, policyVars>>

\* cheby._recursive_eval(degree, x) and cheby._matrix_eval(degree, x), the
\* two paths eval chooses between, on the same arguments
EvalBothPaths ==
    /\ cheb_call.op = "none"
    /\ \E degree \in PathDegrees, x \in XChoices :
         cheb_call' = [op |-> "paths", degree |-> degree, x |-> x,
                       direct |-> recursive_eval(degree, x, cheb_mod),
                       matrix |-> matrix_eval(degree, x, cheb_mod)]
    /\ UNCHANGED <<cheb_mod, evaluators, lru_cache, memo_call>>
    /\ UNCHANGED <<cipherVars, dhVars, genVars, chaosVars, policyVars>>

\* three calls of cheby.eval, two of them composed as compute_shared
\* composes them: cheby.eval(m, cheby.eval(n, x)),
\* cheby.eval(n, cheby.eval(m, x)) and cheby.eval(m * n, x)
EvalComposed ==
    /\ cheb_call.op = "none"
    /\ \E m \in ComposeDegrees, n \in ComposeDegrees, x \in XChoices :
         cheb_call' = [op |-> "compose", m |-> m, n |-> n, x |-> x,
                       m_of_n |-> eval(m, eval(n, x, cheb_mod), cheb_mod),
                       n_of_m |-> eval(n, eval(m, x, cheb_mod), cheb_mod),
                       product |-> eval(m * n, x, cheb_mod)]
    /\ UNCHANGED <<cheb_mod, evaluators, lru_cache, memo_call>>
    /\ UNCHANGED <<cipherVars, dhVars, genVars, chaosVars, policyVars>>

\* the max_degree of the samples: the default and a smaller one
MaxDegreeChoices == {MaxDegree, default_max_degree}

\* ChebyshevTests(modulus).test_semigroup_property(samples), x being
\* samples["x_values"][0], a random.randint(0, modulus - 1)
TestSemigroupProperty ==
    /\ cheb_call.op = "none"
    /\ \E x \in 0..(cheb_mod - 1), max_degree \in MaxDegreeChoices :
         \E r \in {test_semigroup(test_degrees(max_degree), x, cheb_mod)} :
           cheb_call' = [op |-> "test_semigroup_property", x |-> x,
                         max_degree |-> max_degree, closure |-> r.closure,
                         associativity |-> r.associativity, passed |-> r.passed]
    /\ UNCHANGED <<cheb_mod, evaluators, lru_cache, memo_call>>
    /\ UNCHANGED <<cipherVars, dhVars, genVars, chaosVars, policyVars>>

\* ChebyshevTests(modulus).test_associativity(samples)
TestAssociativity ==
    /\ cheb_call.op = "none"
    /\ \E x \in 0..(cheb_mod - 1), max_degree \in MaxDegreeChoices :
         \E r \in {test_associativity(test_degrees(max_degree), x, cheb_mod)} :
           cheb_call' = [op |-> "test_associativity", x |-> x,
                         max_degree |-> max_degree, passed |-> r]
    /\ UNCHANGED <<cheb_mod, evaluators, lru_cache, memo_call>>
    /\ UNCHANGED <<cipherVars, dhVars, genVars, chaosVars, policyVars>>

NextCheb ==
    \/ Eval
    \/ EvalBothPaths
    \/ EvalComposed
    \/ TestSemigroupProperty
    \/ TestAssociativity

SpecCheb == InitCheb /\ [][NextCheb]_vars

----------------------------------------------------------------------------
\* Claims about the Chebyshev evaluator (checked under SpecCheb)

\* the pair <<T_{k+steps-1}, T_{k+steps}>> reached from pair = <<T_{k-1}, T_k>>
\* by the defining recurrence T_n = (2 x T_{n-1} - T_{n-2}) mod q
RECURSIVE ChebyshevAdvance(_, _, _, _)
ChebyshevAdvance(pair, steps, x, q) ==
    IF steps = 0 THEN pair
    ELSE IF steps = 1 THEN <<pair[2], (2 * x * pair[2] - pair[1]) % q>>
    ELSE LET mid == ChebyshevAdvance(pair, steps \div 2, x, q)
         IN  IF Forced(mid) THEN ChebyshevAdvance(mid, steps - (steps \div 2), x, q)
             ELSE mid

\* T_n(x) modulo q: T_0 = 1, T_1 = x, T_n = (2 x T_{n-1} - T_{n-2}) mod q
ChebyshevT(n, x, q) ==
    IF n = 0 THEN 1 ELSE ChebyshevAdvance(<<1, x>>, n - 1, x, q)[2]

\* C6: for every modulus q >= 2, every integer x and every degree n >= 0,
\* eval(n, x) is T_n(x mod q) of the recurrence T_0 = 1, T_1 = x,
\* T_n = (2 x T_{n-1} - T_{n-2}) mod q, and lies in [0, q).
C6_EvalIsRecurrence ==
    cheb_call.op = "eval" =>
        /\ cheb_mod >= 2
        /\ cheb_call.result =
               ChebyshevT(cheb_call.degree, cheb_call.x % cheb_mod, cheb_mod)
        /\ cheb_call.result \in 0..(cheb_mod - 1)

\* C6 witness: eval has answered for a degree on the matrix path and an
\* argument outside [0, q)
C6_Witness ==
    /\ cheb_call.op = "eval"
    /\ cheb_call.degree > 100
    /\ cheb_call.x < 0
    /\ cheb_mod > 2
    /\ cheb_call.result > 1

\* C7: the direct recurrence and the matrix exponentiation return the same
\* value for the same (degree, x, q), for every degree >= 2 and in
\* particular for 99, 100 and 101.
C7_PathsAgree ==
    cheb_call.op = "paths" => cheb_call.direct = cheb_call.matrix

\* C7 witness: both paths have been run at degree 101, with a result that is
\* neither 0 nor 1
C7_Witness ==
    /\ cheb_call.op = "paths"
    /\ cheb_call.degree = 101
    /\ cheb_call.direct > 1
    /\ cheb_call.matrix > 1

\* C8: for all degrees m, n >= 0, all x and every modulus,
\* eval(m, eval(n, x)) = eval(n, eval(m, x)) = eval(m * n, x).
C8_Semigroup ==
    cheb_call.op = "compose" =>
        /\ cheb_call.m_of_n = cheb_call.n_of_m
        /\ cheb_call.n_of_m = cheb_call.product

\* C8 witness: a composition whose product degree takes the matrix path
\* while both factors take the direct path, with a result other than 0, 1
C8_Witness ==
    /\ cheb_call.op = "compose"
    /\ cheb_call.m \in 2..100
    /\ cheb_call.n \in 2..100
    /\ cheb_call.m * cheb_call.n > 100
    /\ cheb_call.product > 1

\* C27: for a fixed x and modulus q, compose(n, m) = T_{n*m}(x) mod q on the
\* degree set {2, ..., max_degree} is closed (compose(a, b) is in the degree
\* set) and associative (compose(compose(a, b), c) = compose(a, compose(b,
\* c))), so that the property tests pass.
C27_ComposeSemigroup ==
    cheb_call.op \in {"test_semigroup_property", "test_associativity"} =>
        LET D == 2..cheb_call.max_degree
            x == cheb_call.x
        IN  /\ cheb_call.passed
            /\ \A a \in D, b \in D : compose(a, b, x, cheb_mod) \in D
            /\ \A a \in D, b \in D, c \in 2..3 :
                  compose(compose(a, b, x, cheb_mod), c, x, cheb_mod)
                      = compose(a, compose(b, c, x, cheb_mod), x, cheb_mod)

----------------------------------------------------------------------------
\* Several evaluators as a state machine: instances are created and eval is
\* called on them in any order, all calls sharing the cache of
\* _recursive_eval.

\* the moduli requested
MemoModuli == {0, 3, 7}

\* degrees answered without the cache (0, 101) and through it (2)
MemoDegrees == {0, 2, 101}

\* arguments: 2 and 9 are equal modulo 7 and differ modulo 3
MemoArguments == {2, 9}

InitMemo ==
    /\ CipherIdle
    /\ DhIdle
    /\ GenIdle
    /\ ChaosIdle
    /\ PolicyIdle
    /\ ChebIdle

\* ChaoticSystem.create_chebyshev_calculator(modulus)
CreateChebyshevCalculator ==
    /\ Len(evaluators) < MaxEvaluators
    /\ \E modulus \in MemoModuli :
         evaluators' = Append(evaluators, create_chebyshev_calculator(modulus))
    /\ UNCHANGED <<cheb_mod, cheb_call, lru_cache, memo_call>>
    /\ UNCHANGED <<cipherVars, dhVars, genVars, chaosVars, policyVars>>

\* evaluator.eval(degree, x) on one of the instances
MemoEval ==
    /\ memo_call.n < MaxCalls
    /\ \E self \in 1..Len(evaluators), degree \in MemoDegrees, x \in MemoArguments :
         \E r \in {cached_eval(lru_cache, self, evaluators[self], degree, x)} :
           /\ lru_cache' = r.cache
           /\ memo_call' = [op |-> "eval", n |-> memo_call.n + 1, self |-> self,
                            degree |-> degree, x |-> x, hit |-> r.hit,
                            result |-> r.value]
    /\ UNCHANGED <<cheb_mod, cheb_call, evaluators>>
    /\ UNCHANGED <<cipherVars, dhVars, genVars, chaosVars, policyVars>>

NextMemo == CreateChebyshevCalculator \/ MemoEval

SpecMemo == InitMemo /\ [][NextMemo]_vars

\* C24: whatever eval calls were made before, on evaluators of whatever
\* moduli, eval(degree, x) on an evaluator returns the recurrence value under
\* that evaluator's modulus, and every cached value is the recurrence value
\* under the modulus of the evaluator of its key.
C24_NoLeakAcrossModuli ==
    /\ memo_call.op = "eval" =>
          LET q == evaluators[memo_call.self]
          IN  memo_call.result = ChebyshevT(memo_call.degree, memo_call.x % q, q)
    /\ \A i \in 1..Len(lru_cache) :
          LET k == lru_cache[i].key
          IN  lru_cache[i].value = ChebyshevT(k.degree, k.x, evaluators[k.self])

\* an evaluator answered from the cache while the cache held a different
\* value for the same (degree, x) under another evaluator's modulus
C24_Witness ==
    /\ memo_call.op = "eval"
    /\ memo_call.hit
    /\ \E i \in 1..Len(lru_cache) :
          /\ lru_cache[i].key.self # memo_call.self
          /\ lru_cache[i].key.degree = memo_call.degree
          /\ lru_cache[i].key.x = memo_call.x % evaluators[memo_call.self]
          /\ lru_cache[i].value # memo_call.result

----------------------------------------------------------------------------
\* The key exchange as a state machine: an instance is built and
\* simulate_exchange is called on it.

\* the private_bits an instance is built with: one whose prime length is the
\* minimum, one whose exponents lie on both sides of degree 100
PrivateBitsChoices == {2, 7}

InitDH ==
    /\ CipherIdle
    /\ ChebIdle
    /\ GenIdle
    /\ ChaosIdle
    /\ PolicyIdle
    /\ private_source = "none"
    /\ \E private_bits \in PrivateBitsChoices :
         dh \in ChebyshevDH_instances(private_bits)
    /\ exchange = [op |-> "none"]

SimulateExchange ==
    /\ exchange.op = "none"
    /\ \E alice_private \in private_draws(dh), bob_private \in private_draws(dh) :
         exchange' = simulate_exchange(dh, alice_private, bob_private)
    /\ private_source' = randint_source
    /\ UNCHANGED <<dh, cipherVars, chebVars, genVars, chaosVars, policyVars>>

NextDH == SimulateExchange

SpecDH == InitDH /\ [][NextDH]_vars

----------------------------------------------------------------------------
\* Claims about the key exchange (checked under SpecDH)

\* C2: for every pair of private exponents a, b and every domain (q, p),
\* compute_shared(a, T_b(p)) = compute_shared(b, T_a(p)), so that
\* simulate_exchange, which hands each party the other's raw value, returns
\* match = true on the direct and on the matrix evaluation path.
C2_SharedSecretsMatch ==
    exchange.op = "exchange" =>
        /\ exchange.alice_raw_public = cheby_eval(dh, exchange.alice_private, dh.param)
        /\ exchange.bob_raw_public = cheby_eval(dh, exchange.bob_private, dh.param)
        /\ compute_shared(dh, exchange.alice_private, exchange.bob_raw_public)
             = compute_shared(dh, exchange.bob_private, exchange.alice_raw_public)
        /\ exchange.alice_shared = exchange.bob_shared
        /\ exchange.match = TRUE

\* C2 witness: an exchange between an exponent of the direct path and one
\* of the matrix path, whose masked public values differ from the raw ones
C2_Witness ==
    /\ exchange.op = "exchange"
    /\ exchange.alice_private <= 100
    /\ exchange.bob_private > 100
    /\ exchange.alice_public # exchange.alice_raw_public
    /\ exchange.bob_public # exchange.bob_raw_public
    /\ exchange.match = TRUE

----------------------------------------------------------------------------
\* The S-box generator as a state machine: generate() and
\* generate_with_avalanche() run one swap at a time.

BoxSizes == 0..MaxBoxSize

ScaledDraws == 0..MaxScaled

GenModes == {"generate", "generate_with_avalanche"}

InitGen ==
    /\ CipherIdle
    /\ ChebIdle
    /\ DhIdle
    /\ ChaosIdle
    /\ PolicyIdle
    /\ gen = [pc |-> "idle"]

\* generate(), up to the loop: the trajectory is requested and the table is
\* the identity
GenStart ==
    /\ gen.pc = "idle"
    /\ \E box_size \in BoxSizes, mode \in GenModes :
         gen' = [pc |-> "shuffle", mode |-> mode, box_size |-> box_size,
                 num_points |-> trajectory_points(box_size),
                 i |-> box_size - 1, sbox |-> identity_sbox(box_size)]
    /\ UNCHANGED <<cipherVars, chebVars, dhVars, chaosVars, policyVars>>

\* one pass of "for i in range(self.box_size - 1, 0, -1)" in generate()
ShuffleStep ==
    /\ gen.pc = "shuffle"
    /\ gen.i >= 1
    /\ IF gen.i >= gen.num_points
       THEN gen' = [gen EXCEPT !.pc = "IndexError"]
       ELSE \E scaled \in ScaledDraws :
              gen' = [gen EXCEPT !.sbox = swap(gen.sbox, gen.i, shuffle_index(scaled, gen.i)),
                                 !.i = gen.i - 1]
    /\ UNCHANGED <<cipherVars, chebVars, dhVars, chaosVars, policyVars>>

\* the loop of generate() is over: generate() returns, and
\* generate_with_avalanche() goes on to its own loop
ShuffleReturn ==
    /\ gen.pc = "shuffle"
    /\ gen.i < 1
    /\ gen' = IF gen.mode = "generate"
              THEN [gen EXCEPT !.pc = "done"]
              ELSE [gen EXCEPT !.pc = "avalanche", !.i = gen.box_size - 1]
    /\ UNCHANGED <<cipherVars, chebVars, dhVars, chaosVars, policyVars>>

\* one pass of the loop of generate_with_avalanche()
AvalancheStep ==
    /\ gen.pc = "avalanche"
    /\ gen.i >= 1
    /\ \E value \in ScaledDraws :
         gen' = [gen EXCEPT !.sbox = swap(gen.sbox, gen.i, chaotic_randint(0, gen.i, value)),
                            !.i = gen.i - 1]
    /\ UNCHANGED <<cipherVars, chebVars, dhVars, chaosVars, policyVars>>

\* generate_with_avalanche() returns
AvalancheReturn ==
    /\ gen.pc = "avalanche"
    /\ gen.i < 1
    /\ gen' = [gen EXCEPT !.pc = "done"]
    /\ UNCHANGED <<cipherVars, chebVars, dhVars, chaosVars, policyVars>>

\* the secrets of the generators: none of the bytes, two bytes, three bytes
GenSecrets == {0, 12345, 65536}

\* the times of the calls
ClockChoices == {1, 2, 3}

\* one call on a generator at a time, then a second call on the same
\* generator and a call on another generator built from an equal secret and
\* size, both at a later time
GenerateTwice ==
    /\ gen.pc = "idle"
    /\ \E box_size \in BoxSizes, mode \in GenModes, shared_secret \in GenSecrets,
          clock \in ClockChoices, later \in ClockChoices :
         /\ clock < later
         /\ gen' = [pc |-> "done", mode |-> mode, box_size |-> box_size,
                    num_points |-> trajectory_points(box_size), i |-> 0,
                    shared_secret |-> shared_secret, clock |-> clock,
                    later |-> later,
                    sbox |-> generator_call(mode, shared_secret, box_size, clock),
                    again |-> generator_call(mode, shared_secret, box_size, later),
                    other |-> generator_call(mode, shared_secret, box_size, later)]
    /\ UNCHANGED <<cipherVars, chebVars, dhVars, chaosVars, policyVars>>

NextGen ==
    \/ GenStart
    \/ ShuffleStep
    \/ ShuffleReturn
    \/ AvalancheStep
    \/ AvalancheReturn
    \/ GenerateTwice

SpecGen == InitGen /\ [][NextGen]_vars

----------------------------------------------------------------------------
\* Claims about the S-box generator (checked under SpecGen)

\* sb lists each of 0, ..., n - 1 exactly once
IsPermutation(sb, n) ==
    /\ Len(sb) = Max(0, n)
    /\ \A v \in 0..(n - 1) : Cardinality({k \in 1..Len(sb) : sb[k] = v}) = 1

\* C3: generate() and generate_with_avalanche() return a permutation of
\* {0, ..., N-1} for every box_size N: the table is a permutation after the
\* identity initialisation and after every swap of both shuffle passes,
\* whatever swap indices the chaotic source yields.
C3_AlwaysPermutation ==
    gen.pc # "idle" =>
        /\ gen.pc \in {"shuffle", "avalanche", "done"}
        /\ IsPermutation(gen.sbox, gen.box_size)

\* C3 witness: generate_with_avalanche() has returned a table that both
\* passes have moved away from the identity
C3_Witness ==
    /\ gen.pc = "done"
    /\ gen.mode = "generate_with_avalanche"
    /\ gen.box_size >= 4
    /\ \A k \in 1..gen.box_size : gen.sbox[k] # k - 1

\* C30: S-box generation is a function of (shared_secret, box_size): a
\* generator returns the same table from generate(), and from
\* generate_with_avalanche(), each time it is called, and so does another
\* generator built from an equal secret and size, whenever the calls are
\* made.
C30_Deterministic ==
    (gen.pc = "done" /\ "again" \in DOMAIN gen) =>
        /\ gen.again = gen.sbox
        /\ gen.other = gen.sbox
        /\ gen.sbox = generator_call(gen.mode, gen.shared_secret, gen.box_size, 0)

\* generate_with_avalanche() returned, at two different times, a table that
\* is not the identity
C30_Witness ==
    /\ gen.pc = "done"
    /\ "again" \in DOMAIN gen
    /\ gen.mode = "generate_with_avalanche"
    /\ gen.box_size = MaxBoxSize
    /\ gen.clock < gen.later
    /\ gen.sbox # identity_sbox(gen.box_size)
    /\ gen.again = gen.sbox

----------------------------------------------------------------------------
\* The chaotic byte stream as a state machine: one generate_bytes call, on
\* the system itself or through the ChaoticSystem wrapper.

ByteCounts == 0..MaxBytes

\* the skips requested, on both sides of the wrapper's minimum of 50
SkipChoices == {1, 49, 50, 51, 100, 200}

InitChaos ==
    /\ CipherIdle
    /\ ChebIdle
    /\ DhIdle
    /\ GenIdle
    /\ PolicyIdle
    /\ stream = [op |-> "none"]

\* HyperchaosSystem().generate_bytes(initial_state, num_bytes, skip)
SystemGenerateBytes ==
    /\ stream.op = "none"
    /\ \E seed \in StateSeeds, num_bytes \in ByteCounts, skip \in SkipChoices :
         \E r \in {system_generate_bytes(seed, num_bytes, skip)} :
           stream' = [op |-> "generate_bytes", via |-> "HyperchaosSystem",
                      seed |-> seed, num_bytes |-> num_bytes, skip |-> skip,
                      total_points |-> r.total_points, samples |-> r.samples,
                      err |-> r.err, bytes |-> r.bytes]
    /\ UNCHANGED <<cipherVars, chebVars, dhVars, genVars, policyVars>>

\* ChaoticSystem.generate_bytes(initial_state, num_bytes, skip)
InterfaceGenerateBytes ==
    /\ stream.op = "none"
    /\ \E seed \in StateSeeds, num_bytes \in ByteCounts, skip \in SkipChoices :
         \E r \in {interface_generate_bytes(seed, num_bytes, skip)} :
           stream' = [op |-> "generate_bytes", via |-> "ChaoticSystem",
                      seed |-> seed, num_bytes |-> num_bytes, skip |-> skip,
                      total_points |-> r.total_points, samples |-> r.samples,
                      err |-> r.err, bytes |-> r.bytes]
    /\ UNCHANGED <<cipherVars, chebVars, dhVars, genVars, policyVars>>

\* the four wrappers that take an initial state
InterfaceOperations ==
    {"generate_sequence", "generate_keystream", "generate_bytes", "generate_block"}

\* initial states of 0 to 7 components
InitialStates == { [i \in 1..n |-> 2 * i + 1] : n \in 0..7 }

\* ChaoticSystem.<operation>(initial_state, ...)
InterfaceWithState ==
    /\ stream.op = "none"
    /\ \E operation \in InterfaceOperations, initial_state \in InitialStates :
         \E r \in {interface_call(operation, initial_state)} :
           stream' = [op |-> "with_state", operation |-> r.operation,
                      initial_state |-> initial_state, state |-> r.state,
                      err |-> r.err]
    /\ UNCHANGED <<cipherVars, chebVars, dhVars, genVars, policyVars>>

NextChaos == SystemGenerateBytes \/ InterfaceGenerateBytes \/ InterfaceWithState

SpecChaos == InitChaos /\ [][NextChaos]_vars

----------------------------------------------------------------------------
\* Claims about the chaotic byte stream (checked under SpecChaos)

\* C11: generate_bytes(state, n, skip) returns exactly n bytes for every n
\* (n = 0 included) and every skip, on the system and through the wrapper;
\* byte k comes from sample skip + k of a trajectory of n + skip samples, so
\* that none of the first skip samples is read.
C11_ExactlyNBytes ==
    stream.op = "generate_bytes" =>
        /\ stream.err = "none"
        /\ Len(stream.bytes) = stream.num_bytes
        /\ stream.total_points = stream.num_bytes + stream.skip
        /\ Len(stream.samples) = stream.num_bytes
        /\ \A k \in 1..Len(stream.samples) :
               stream.samples[k] = stream.skip + (k - 1)

\* C22: for an initial state of any length other than 5, shorter or longer,
\* generate_sequence, generate_keystream, generate_bytes and generate_block
\* repair it to 5 components (the given ones first, then the padding
\* constant) and proceed without raising.
C22_StateRepaired ==
    stream.op = "with_state" =>
        /\ Len(stream.state) = 5
        /\ stream.err = "none"
        /\ \A i \in 1..5 :
              stream.state[i] = IF i <= Len(stream.initial_state)
                                THEN stream.initial_state[i] ELSE 1

----------------------------------------------------------------------------
\* Further claims about the block cipher (checked under SpecCipher)

\* C12: generate_test_sequence(size, entropy) returns exactly size bytes for
\* every size >= 0, with or without entropy, for every cipher configuration.
C12_TestSequenceSize ==
    call.op = "generate_test_sequence" =>
        /\ call.result.err = "none"
        /\ Len(call.result.val) = call.sequence_size

----------------------------------------------------------------------------
\* The round function and the Feistel network, bit by bit

\* bit i of byte b, bit 0 the least significant
Bit(b, i) == (b \div (2 ^ i)) % 2

\* the byte whose bit i is B(i)
ByteOf(B(_)) ==
    B(0) + 2 * B(1) + 4 * B(2) + 8 * B(3) + 16 * B(4) + 32 * B(5)
         + 64 * B(6) + 128 * B(7)

\* exclusive or, bit by bit
XorRef(a, b) ==
    LET B(i) == IF Bit(a, i) = Bit(b, i) THEN 0 ELSE 1
    IN  ByteOf(B)

\* rotation of a byte by k bit positions to the left
RotateLeft(b, k) ==
    LET B(i) == Bit(b, (i + 8 - k) % 8)
    IN  ByteOf(B)

\* rotation of a byte by k bit positions to the right
RotateRight(b, k) ==
    LET B(i) == Bit(b, (i + k) % 8)
    IN  ByteOf(B)

\* the three steps of F as the specification lists them
RoundReference(half_block, round_key, round_num, sb) ==
    LET n == Len(half_block)
        step1 == Force([i \in 1..n |->
                     XorRef(half_block[i], round_key[((i - 1) % Len(round_key)) + 1])])
        step2 == Force([i \in 1..n |-> sb[(step1[i] % Len(sb)) + 1] % 256])
        left(i) == step2[IF i = 1 THEN n ELSE i - 1]
        right(i) == step2[IF i = n THEN 1 ELSE i + 1]
    IN  [i \in 1..n |->
            CASE round_num % 3 = 0 ->
                   XorRef(RotateRight(step2[i], 1), (left(i) + round_num) % 256)
              [] round_num % 3 = 1 ->
                   XorRef(RotateLeft(step2[i], 2), (right(i) + round_num) % 256)
              [] round_num % 3 = 2 ->
                   (XorRef(XorRef(step2[i], left(i)), right(i)) + round_num) % 256]

\* C19: F(half_block, round_key, round_num) has the length of half_block and
\* is: XOR with the round key repeated cyclically; substitution of each byte
\* b by sbox[b mod sbox_size] reduced to 8 bits; then, over the substituted
\* values only and with cyclic neighbours, by round_num mod 3: rotate right
\* by 1 XOR (left neighbour + round_num) mod 256; rotate left by 2 XOR (right
\* neighbour + round_num) mod 256; (byte XOR left XOR right + round_num) mod
\* 256.
C19_RoundFunction ==
    call.op = "hyperchaotic_round" =>
        /\ Len(call.result) = Len(call.half_block)
        /\ call.result = RoundReference(call.half_block, call.round_key,
                                        call.round_num, sbox)

\* F ran in its second variant under a round key shorter than the half block
\* and a table holding values above 255
C19_Witness ==
    /\ call.op = "hyperchaotic_round"
    /\ call.round_num % 3 = 1
    /\ Len(call.round_key) < Len(call.half_block)
    /\ sbox = SBoxIrregular
    /\ call.result # call.half_block

\* the round indices in the order the direction takes them
RoundOrder(nrounds, is_encrypt) ==
    [i \in 1..nrounds |-> IF is_encrypt THEN i - 1 ELSE nrounds - i]

\* (left, right) := (right, left XOR F(right, key[r], r)) for r along order,
\* then right || left
RECURSIVE FeistelReference(_, _, _, _, _)
FeistelReference(left, right, order, round_keys, sb) ==
    IF order = <<>> THEN right \o left
    ELSE LET r == Head(order)
             F == Force(hyperchaotic_round(right, round_keys[r + 1], r, sb))
             new_left == Force([i \in 1..Len(left) |->
                             XorRef(left[i], F[((i - 1) % Len(F)) + 1])])
         IN  FeistelReference(right, new_left, Tail(order), round_keys, sb)

\* C18: _process_block splits a block of block_size bytes into two equal
\* halves and, for round r ascending on encrypt and descending on decrypt,
\* sets (left, right) := (right, left XOR F(right, key[r], r)), each round
\* under the round key and round number of its own index; it returns
\* right || left.
C18_FeistelNetwork ==
    call.op = "process_block" =>
        LET h == Len(call.block) \div 2
        IN  /\ 2 * h = Len(call.block)
            /\ call.result =
                  Ok(FeistelReference(SubSeq(call.block, 1, h),
                                      SubSeq(call.block, h + 1, 2 * h),
                                      RoundOrder(rounds, call.encrypt),
                                      call.round_keys, sbox))

\* a block went through the rounds in descending order and came out changed
C18_Witness ==
    /\ call.op = "process_block"
    /\ ~call.encrypt
    /\ IsOk(call.result)
    /\ call.result.val # call.block

\* the key the specification gives for a call without one
SboxKey(sb) ==
    [i \in 1..32 |-> IF i - 1 < Min(32, Len(sb)) THEN sb[i] % 256 ELSE 0]

\* C20: without a key, encrypt and decrypt use the 32-byte key whose byte i
\* is sbox[i] mod 256 for i < min(32, sbox_size) and 0 otherwise: the
\* ciphertext is the one encrypt returns under that key passed explicitly,
\* and decrypt(c) and decrypt(c, K) both return the plaintext; a key that is
\* passed is used unchanged, the first cipher block being the block
\* transform of P_0 XOR IV under the round keys of exactly those bytes.
C20_DefaultKey ==
    /\ (op = "encrypt" /\ ~key.given /\ IsOk(out)) =>
          out.val = encrypt(arg, KeyOf(SboxKey(sbox)), iv, rounds, block_size, sbox).val
    /\ (op = "decrypt" /\ ~enc_key.given /\ arg = enc_out.val /\ arg # <<>>
           /\ (~key.given \/ key = KeyOf(SboxKey(sbox)))) =>
          out = Ok(enc_in)
    /\ (op = "encrypt" /\ key.given /\ IsOk(out)) =>
          BlockAt(out.val, 1, block_size) =
              process_block(xor_block(BlockAt(joined, 0, block_size), iv, block_size),
                            generate_keys(key.bytes, rounds, block_size),
                            TRUE, rounds, sbox).val

\* a ciphertext made without a key was decrypted under the explicit key
C20_Witness ==
    /\ op = "decrypt"
    /\ ~enc_key.given
    /\ key = KeyOf(SboxKey(sbox))
    /\ arg = enc_out.val
    /\ Len(enc_in) > 0
    /\ out = Ok(enc_in)

\* C21: _generate_keys(key) returns exactly `rounds` round keys of exactly
\* block_size / 2 bytes each, the consecutive chunks of one byte stream of
\* rounds * (block_size / 2) bytes, and a second call with the same key
\* returns the same round keys.
C21_RoundKeys ==
    call.op = "generate_keys" =>
        LET half == block_size \div 2
            byte_stream == join(call.result)
        IN  /\ Len(call.result) = rounds
            /\ \A r \in 1..Len(call.result) : Len(call.result[r]) = half
            /\ Len(byte_stream) = rounds * half
            /\ byte_stream = generate_bytes(key_hash(call.key), rounds * half, 200)
            /\ \A r \in 1..Len(call.result) :
                  call.result[r] = SubSeq(byte_stream, (r - 1) * half + 1, r * half)
            /\ call.again = call.result

\* round keys were derived for nine rounds of five bytes each
C21_Witness ==
    /\ call.op = "generate_keys"
    /\ rounds = 9
    /\ block_size = 10
    /\ Len(call.result) = 9
    /\ call.key # <<>>

\* C26: for every block_size the policy admits (even, 8 to 1024) and every
\* input, _pad_data succeeds and every byte it appends has the value of the
\* number of bytes appended, which is block_size for an aligned input.
C26_PadValues ==
    op = "pad" =>
        /\ block_size % 2 = 0 /\ block_size >= MIN_BLOCK_SIZE
        /\ block_size <= MAX_BLOCK_SIZE
        /\ out.err = "none"
        /\ LET appended == Len(out.val) - Len(arg)
           IN  /\ appended >= 1
               /\ Len(arg) % block_size = 0 => appended = block_size
               /\ \A i \in (Len(arg) + 1)..Len(out.val) : out.val[i] = appended

\* C28: for every block of even length, every set of round keys and every
\* substitution table, bijective or not, of 256 entries or fewer,
\* _process_block(_process_block(b, keys, True), keys, False) = b.
C28_BlockInvertible ==
    call.op = "process_block_twice" =>
        /\ Len(call.block) % 2 = 0
        /\ IsOk(call.encrypted)
        /\ Len(call.encrypted.val) = Len(call.block)
        /\ call.decrypted = Ok(call.block)

\* a full block came back through a table that is no permutation, under
\* round keys shorter than the half block
C28_Witness ==
    /\ call.op = "process_block_twice"
    /\ sbox = SBoxIrregular
    /\ Len(call.block) = block_size
    /\ Len(call.round_keys[1]) < block_size \div 2
    /\ call.encrypted.val # call.block
    /\ call.decrypted = Ok(call.block)

\* C29: decrypt is total: for every byte string handed to it as ciphertext,
\* whatever its length (a multiple of block_size or not, an IV followed by
\* one byte included), it returns a byte string and does not raise.
C29_DecryptTotal ==
    op = "decrypt" =>
        /\ out.err = "none"
        /\ Len(out.val) <= Len(arg)

----------------------------------------------------------------------------
\* Further claims about the key exchange (checked under SpecDH)

\* C13: ChebyshevDH(private_bits) has prime_bits = max(minimum, 4 *
\* private_bits), a modulus q with 2^(prime_bits-1) <= q < 2^prime_bits,
\* public_bits = min(2 * private_bits, prime_bits - 1) and a parameter p
\* with 2^(prime_bits-2) <= p <= 2^(prime_bits-1) - 1, so that p < q and q has
\* at least the minimum number of bits (256 in the code, MinPrimeBits here).
C13_DomainSizes ==
    dh.private_bits > 0 =>
        LET prime_bits == IF 4 * dh.private_bits > MinPrimeBits
                          THEN 4 * dh.private_bits ELSE MinPrimeBits
        IN  /\ dh.mod >= 2 ^ (prime_bits - 1)
            /\ dh.mod < 2 ^ prime_bits
            /\ dh.mod >= 2 ^ (MinPrimeBits - 1)
            /\ dh.public_bits = IF 2 * dh.private_bits < prime_bits - 1
                                THEN 2 * dh.private_bits ELSE prime_bits - 1
            /\ dh.param >= 2 ^ (prime_bits - 2)
            /\ dh.param <= 2 ^ (prime_bits - 1) - 1
            /\ dh.param < dh.mod

\* C13 witness: an instance whose prime length is 4 * private_bits, above
\* the minimum, with the largest parameter of its range
C13_Witness ==
    /\ dh.private_bits > 0
    /\ 4 * dh.private_bits > MinPrimeBits
    /\ dh.param = 2 ^ (4 * dh.private_bits - 1) - 1
    /\ dh.param < dh.mod

\* the triple generate_keypair returned is as C17 says
KeypairAsClaimed(private, public, raw) ==
    LET top == 2 ^ (dh.public_bits - 1)
    IN  /\ private >= 2 ^ (dh.private_bits - 1)
        /\ private <= 2 ^ dh.private_bits - 1
        /\ raw = cheby_eval(dh, private, dh.param)
        /\ raw \in 0..(dh.mod - 1)
        \* the bits below the top one are those of raw, the top one is set
        /\ public % top = raw % top
        /\ public >= top
        /\ public < 2 * top
        /\ public < dh.mod

\* C17: generate_keypair returns (d, public, raw) with d of exactly
\* private_bits bits, raw = T_d(p) mod q and public = ((raw AND (2^public_bits
\* - 1)) OR 2^(public_bits-1)) mod q; public depends on d and the domain
\* only, has exactly public_bits bits and is below q.
C17_Keypair ==
    exchange.op = "exchange" =>
        /\ KeypairAsClaimed(exchange.alice_private, exchange.alice_public,
                            exchange.alice_raw_public)
        /\ KeypairAsClaimed(exchange.bob_private, exchange.bob_public,
                            exchange.bob_raw_public)
        /\ exchange.alice_private = exchange.bob_private
               => exchange.alice_public = exchange.bob_public

\* C17 witness: a key pair whose raw value is longer than public_bits bits
\* and has the top bit of the mask clear, so that the public value is
\* neither the raw value nor its low bits
C17_Witness ==
    /\ exchange.op = "exchange"
    /\ exchange.alice_raw_public >= 2 ^ dh.public_bits
    /\ (exchange.alice_raw_public % (2 ^ dh.public_bits)) < 2 ^ (dh.public_bits - 1)
    /\ exchange.alice_public # exchange.alice_raw_public % (2 ^ dh.public_bits)

\* the routines of the Python library that are cryptographically secure
\* random sources
SecureSources == {"os.urandom", "secrets.randbelow", "random.SystemRandom"}

\* C15: the IV drawn by encrypt and the private exponent drawn by
\* generate_keypair both come from a cryptographically secure random source,
\* never from a general-purpose PRNG.
C15_SecureSources ==
    /\ iv_source # "none" => iv_source \in SecureSources
    /\ private_source # "none" => private_source \in SecureSources

----------------------------------------------------------------------------
\* Construction as a state machine: one object is built, by a factory of
\* CryptoInterface or by calling the constructor.

RoundRequests == {0 - 1, 0, 1, 7, 8, 9, 16, 100}

BlockSizeRequests == {0 - 2, 0, 1, 7, 8, 9, 15, 16, 255, 256, 1023, 1024, 1025, 5000}

BoxSizeRequests ==
    {0 - 4, 0, 1, 15, 16, 17, 31, 32, 33, 255, 256, 257, 1000, 32769, 65535,
     65536, 65537, 100000}

SecretChoices == {0, 12345}

InitPolicy ==
    /\ CipherIdle
    /\ ChebIdle
    /\ DhIdle
    /\ GenIdle
    /\ ChaosIdle
    /\ built = [kind |-> "none"]

\* CryptoSystem.create_block_cipher(sbox, rounds, block_size), as main.py does
CreateBlockCipher ==
    /\ built.kind = "none"
    /\ \E nrounds \in RoundRequests, bs \in BlockSizeRequests :
         built' = [kind |-> "cipher", by |-> "create_block_cipher",
                   requested_rounds |-> nrounds, requested_block_size |-> bs,
                   instance |-> create_block_cipher(SBoxPermutation, nrounds, bs)]
    /\ UNCHANGED <<cipherVars, chebVars, dhVars, genVars, chaosVars>>

\* HyperchaosBlockCipher(sbox, rounds, block_size), as
\* CryptoTests.test_block_cipher_avalanche does
ConstructBlockCipher ==
    /\ built.kind = "none"
    /\ \E nrounds \in RoundRequests, bs \in BlockSizeRequests :
         built' = [kind |-> "cipher", by |-> "HyperchaosBlockCipher",
                   requested_rounds |-> nrounds, requested_block_size |-> bs,
                   instance |-> HyperchaosBlockCipher(SBoxPermutation, nrounds, bs)]
    /\ UNCHANGED <<cipherVars, chebVars, dhVars, genVars, chaosVars>>

\* CryptoSystem.create_sbox_generator(shared_secret, box_size)
CreateSboxGenerator ==
    /\ built.kind = "none"
    /\ \E shared_secret \in SecretChoices, box_size \in BoxSizeRequests :
         built' = [kind |-> "sbox_generator", by |-> "create_sbox_generator",
                   requested_box_size |-> box_size,
                   instance |-> create_sbox_generator(shared_secret, box_size)]
    /\ UNCHANGED <<cipherVars, chebVars, dhVars, genVars, chaosVars>>

\* the passes of the loop of generate() that are observed: the first, one in
\* the middle, the last
ObservedPasses(box_size) == {box_size - 1, box_size \div 2, 1}

\* integer parts of combined_value * (i + 1)
ScaledChoices == {0, 5, 70000, 1000000}

\* generator.generate() on the generator that was created
GenerateOnBuilt ==
    /\ built.kind = "sbox_generator"
    /\ \E i \in ObservedPasses(built.instance.box_size), scaled \in ScaledChoices :
         built' = [kind |-> "generated",
                   pass |-> generate_pass(built.instance.box_size, i, scaled)]
    /\ UNCHANGED <<cipherVars, chebVars, dhVars, genVars, chaosVars>>

NextPolicy ==
    \/ CreateBlockCipher
    \/ ConstructBlockCipher
    \/ CreateSboxGenerator
    \/ GenerateOnBuilt

SpecPolicy == InitPolicy /\ [][NextPolicy]_vars

----------------------------------------------------------------------------
\* Claims about construction (checked under SpecPolicy)

\* C14: every block cipher instance has rounds >= 8 and an even block_size
\* >= 8, whatever (rounds, block_size) was requested, so that a block splits
\* into two halves of block_size / 2 bytes each.
C14_CipherConfiguration ==
    built.kind = "cipher" =>
        /\ built.instance.rounds >= 8
        /\ built.instance.block_size >= 8
        /\ built.instance.block_size % 2 = 0
        /\ 2 * built.instance.half_block_size = built.instance.block_size

\* n is a power of two
IsPowerOfTwo(n) == \E e \in 0..20 : n = 2 ^ e

\* C16: the size of the generator created through the policy is the least
\* power of two >= the request clamped to [16, 65536], hence a power of two
\* within [16, 65536].
C16_SboxSizePolicy ==
    (built.kind = "sbox_generator" /\ built.by = "create_sbox_generator") =>
        LET clamped == IF built.requested_box_size < 16 THEN 16
                       ELSE IF built.requested_box_size > 65536 THEN 65536
                       ELSE built.requested_box_size
            size == built.instance.box_size
        IN  /\ IsPowerOfTwo(size)
            /\ size >= clamped
            /\ size \div 2 < clamped
            /\ size >= 16
            /\ size <= 65536

\* C16 witness: a request inside the range that is no power of two has
\* been rounded up
C16_Witness ==
    /\ built.kind = "sbox_generator"
    /\ built.requested_box_size = 257
    /\ built.instance.box_size = 512

\* C23: for every permitted S-box size N, generate() works on a trajectory
\* of 2N points, starts from a table of size N, and at each pass i from N-1
\* down to 1 reads sample i, which is within the trajectory, and swaps
\* position i with an index in [0, i].
C23_TrajectoryOfTwoN ==
    built.kind = "generated" =>
        LET N == built.pass.box_size
        IN  /\ IsPowerOfTwo(N) /\ N >= 16 /\ N <= 65536
            /\ built.pass.requested_points = 2 * N
            /\ built.pass.num_points = 2 * N
            /\ built.pass.table_size = N
            /\ built.pass.i >= 1 /\ built.pass.i <= N - 1
            /\ built.pass.i < built.pass.num_points
            /\ built.pass.err = "none"
            /\ built.pass.swap_index >= 0
            /\ built.pass.swap_index <= built.pass.i

----------------------------------------------------------------------------
\* The two long-lived objects as a state machine: a cipher and a key
\* exchange are constructed, then their methods are called in any order and
\* any number of times.

\* a method that stores what it was working on in the instance
cipher_after_storing(method, self) ==
    IF method = "generate_test_sequence"
    THEN [self EXCEPT !.sbox = SubSeq(self.sbox, 1, Len(self.sbox) - 1)]
    ELSE self

\* the fields (rounds, block_size, sbox) of the cipher after a call of
\* encrypt, decrypt or generate_test_sequence: none of them assigns to self
\* or writes into self.sbox
cipher_after(method, self) == self

\* the fields (private_bits, public_bits, mod, param) of the key exchange
\* after a call of generate_keypair, compute_shared or simulate_exchange:
\* none of them assigns to self
dh_after(method, d) == d

FrameConfigs ==
    { [rounds |-> 8, block_size |-> 8, sbox |-> SBoxPermutation],
      [rounds |-> 9, block_size |-> 8, sbox |-> SBoxIrregular] }

FramePlaintexts == { Pattern(9, 65, 1) }

FrameKeys == { NoKey, KeyOf(<<116, 101, 115, 116>>) }

FrameSizes == {17}

\* the key exchanges constructed: the least parameter, each prime that is
\* drawn
FrameExchanges ==
    { d \in ChebyshevDH_instances(2) :
          \A e \in ChebyshevDH_instances(2) : d.param <= e.param }

InitFrame ==
    /\ ChebIdle
    /\ GenIdle
    /\ ChaosIdle
    /\ PolicyIdle
    /\ \E c \in FrameConfigs :
         /\ rounds = c.rounds
         /\ block_size = c.block_size
         /\ sbox = c.sbox
    /\ op = "init"
    /\ arg = <<>>
    /\ key = NoKey
    /\ iv = <<>>
    /\ out = Ok(<<>>)
    /\ joined = <<>>
    /\ keygen_calls = 0
    /\ block_calls = 0
    /\ enc_in = <<>>
    /\ enc_key = NoKey
    /\ enc_out = Ok(<<>>)
    /\ call = [op |-> "none"]
    /\ iv_source = "none"
    /\ dh \in FrameExchanges
    /\ exchange = [op |-> "none"]
    /\ private_source = "none"

\* cipher.encrypt(plaintext, key), after whatever came before
CallEncrypt ==
    /\ \E plaintext \in FramePlaintexts, k \in FrameKeys :
        \E drawn_iv \in {Pattern(block_size, 165, 7)} :
        \E r \in {encrypt(plaintext, k, drawn_iv, rounds, block_size, sbox)},
           self \in {cipher_after("encrypt", [rounds |-> rounds,
                                              block_size |-> block_size,
                                              sbox |-> sbox])} :
            /\ op' = "encrypt"
            /\ arg' = plaintext
            /\ key' = k
            /\ iv' = drawn_iv
            /\ out' = [err |-> r.err, val |-> r.val]
            /\ joined' = r.joined
            /\ keygen_calls' = r.keygen_calls
            /\ block_calls' = r.block_calls
            /\ enc_in' = plaintext
            /\ enc_key' = k
            /\ enc_out' = [err |-> r.err, val |-> r.val]
            /\ iv_source' = urandom_source
            /\ rounds' = self.rounds
            /\ block_size' = self.block_size
            /\ sbox' = self.sbox
    /\ UNCHANGED <<call, chebVars, dhVars, genVars, chaosVars, policyVars>>

\* cipher.decrypt(ciphertext, key) of the ciphertext of the last encrypt
CallDecrypt ==
    /\ \E k \in {enc_key, OtherKey} :
        \E r \in {decrypt(enc_out.val, k, rounds, block_size, sbox)},
           self \in {cipher_after("decrypt", [rounds |-> rounds,
                                              block_size |-> block_size,
                                              sbox |-> sbox])} :
            /\ op' = "decrypt"
            /\ arg' = enc_out.val
            /\ key' = k
            /\ iv' = slice(enc_out.val, 0, block_size)
            /\ out' = [err |-> r.err, val |-> r.val]
            /\ joined' = r.joined
            /\ keygen_calls' = r.keygen_calls
            /\ block_calls' = r.block_calls
            /\ rounds' = self.rounds
            /\ block_size' = self.block_size
            /\ sbox' = self.sbox
    /\ UNCHANGED <<enc_in, enc_key, enc_out, call, iv_source>>
    /\ UNCHANGED <<chebVars, dhVars, genVars, chaosVars, policyVars>>

\* cipher.generate_test_sequence(sequence_size, entropy)
CallGenerateTestSequence ==
    /\ \E sequence_size \in FrameSizes, entropy_given \in BOOLEAN :
         \E r \in {generate_test_sequence(sequence_size, entropy_given, 1,
                                          rounds, block_size, sbox)},
            self \in {cipher_after("generate_test_sequence",
                                   [rounds |-> rounds, block_size |-> block_size,
                                    sbox |-> sbox])} :
           /\ op' = "generate_test_sequence"
           /\ call' = [op |-> "generate_test_sequence", sequence_size |-> sequence_size,
                       entropy_given |-> entropy_given, result |-> r]
           /\ rounds' = self.rounds
           /\ block_size' = self.block_size
           /\ sbox' = self.sbox
    /\ UNCHANGED <<arg, key, iv, out, joined, keygen_calls, block_calls, enc_in,
                   enc_key, enc_out, iv_source>>
    /\ UNCHANGED <<chebVars, dhVars, genVars, chaosVars, policyVars>>

\* dh.generate_keypair()
CallGenerateKeypair ==
    /\ \E private \in private_draws(dh) :
         \E r \in {generate_keypair(dh, private)} :
           exchange' = [op |-> "generate_keypair", private |-> r.private,
                        public |-> r.public, raw |-> r.raw]
    /\ private_source' = randint_source
    /\ dh' = dh_after("generate_keypair", dh)
    /\ UNCHANGED <<cipherVars, chebVars, genVars, chaosVars, policyVars>>

\* dh.compute_shared(private, other_public) on the raw public value of a
\* keypair of this exchange
CallComputeShared ==
    /\ \E private \in private_draws(dh), other \in private_draws(dh) :
         \E other_public \in {generate_keypair(dh, other).raw} :
           exchange' = [op |-> "compute_shared", private |-> private,
                        other_public |-> other_public,
                        shared |-> compute_shared(dh, private, other_public)]
    /\ dh' = dh_after("compute_shared", dh)
    /\ UNCHANGED <<private_source, cipherVars, chebVars, genVars, chaosVars, policyVars>>

\* dh.simulate_exchange()
CallSimulateExchange ==
    /\ \E alice_private \in private_draws(dh), bob_private \in private_draws(dh) :
         exchange' = simulate_exchange(dh, alice_private, bob_private)
    /\ private_source' = randint_source
    /\ dh' = dh_after("simulate_exchange", dh)
    /\ UNCHANGED <<cipherVars, chebVars, genVars, chaosVars, policyVars>>

NextFrame ==
    \/ CallEncrypt
    \/ CallDecrypt
    \/ CallGenerateTestSequence
    \/ CallGenerateKeypair
    \/ CallComputeShared
    \/ CallSimulateExchange

SpecFrame == InitFrame /\ [][NextFrame]_vars

\* C25: no call changes the configuration: every step of every sequence of
\* encrypt, decrypt and generate_test_sequence leaves rounds, block_size and
\* the S-box as they were, and every step of generate_keypair, compute_shared
\* and simulate_exchange leaves the modulus, the parameter and the bit sizes
\* as they were; so decrypt, under the key of the last encrypt, returns its
\* plaintext whatever calls came in between.
C25_ConfigurationFrame ==
    /\ [][ /\ rounds' = rounds
           /\ block_size' = block_size
           /\ sbox' = sbox
           /\ dh' = dh ]_vars
    /\ []((op = "decrypt" /\ IsOk(enc_out) /\ arg = enc_out.val /\ key = enc_key)
              => out = Ok(enc_in))

\* decrypt returned the plaintext with a generate_test_sequence call and a
\* simulated exchange made on the same objects
C25_Witness ==
    /\ op = "decrypt"
    /\ key = enc_key
    /\ out = Ok(enc_in)
    /\ Len(enc_in) > 0
    /\ call.op = "generate_test_sequence"
    /\ exchange.op = "exchange"

====
